---- MODULE Spec2Model ----
(***************************************************************************)
(* Verification model of the desktop shell's core:                         *)
(*   - the instance / window manager   (src/src/stores/useAppStore.ts)     *)
(*   - the lazy content loader         (useFilesStore, ensureFileContent-  *)
(*                                      Loaded)                            *)
(*   - the metadata store              (useFilesStore: items map)          *)
(*   - the file system facade          (useFileSystem + IndexedDB buckets) *)
(* Every subsystem has its own specification over the shared variables;    *)
(* the variables of the other subsystems stay at their initial values.     *)
(***************************************************************************)
EXTENDS Integers, Sequences, FiniteSets, Bags, TLC

\* ------------------------------------------------------------------------
\* Bounds of the model
\* ------------------------------------------------------------------------
\* createAppInstance is cut off once nextInstanceId reaches this value.
MaxInstances == 3
\* Paths have at most this many segments.
MaxDepth == 2
\* addItem and createAlias add no new key once the map holds this many items.
MaxItems == 8
\* addItem draws a fresh uuid only while fewer than this many are in use.
MaxFiles == 1
\* createAlias numbers an alias name up to this counter.
MaxAliasNumber == 1
\* At most this many facade calls are suspended at an await at a time.
MaxTasks == 2
\* The callers of ensureFileContentLoaded.
NumCallers == 2
\* Folders nest at most this deep where moveItem is checked alone.
MaxNesting == 3
\* Alias items in a chain of aliases.
MaxChain == 10
\* Entries in a window's navigation history.
MaxHistory == 3

VARIABLES
  \* instance manager (useAppStore)
  instances,             \* Record<string, AppInstance>: id -> instance
  instanceOrder,         \* string[]; END = TOP (foreground)
  foregroundInstanceId,  \* string | null
  nextInstanceId,        \* number
  \* a Finder window's navigation (useFinderStore, useFileSystem)
  finderInstances,       \* Record<string, FinderInstance>: id -> instance
  hookMode,              \* the hook is "unmounted", "local" or "instance"
  localCurrentPath,      \* useState of the mounted hook
  localHistory,
  localHistoryIndex,
  \* what the persist middleware reads at page load (localStorage)
  storage,               \* the stored state of one store and its version
  \* metadata store (useFilesStore)
  items,                 \* Record<string, FileSystemItem>: path -> item
  libraryState,          \* "uninitialized" | "loaded" | "cleared"
  \* content store (IndexedDB) and the facade's calls in progress
  db,                    \* object store name -> set of keys (uuids) stored
  tasks,                 \* bag of the facade calls suspended at an await
  \* lazy content loader (ensureFileContentLoaded)
  loadPc,                \* caller -> the await it is suspended at
  loadResult,            \* caller -> the value its call returned
  loadingAssets,         \* Set<string>: uuids being loaded
  pendingLazyLoadFiles   \* Map<string, ...>: the paths registered

instanceVars ==
  <<instances, instanceOrder, foregroundInstanceId, nextInstanceId>>

navVars ==
  <<finderInstances, hookMode, localCurrentPath, localHistory,
    localHistoryIndex>>

appVars == <<instanceVars, navVars, storage>>

filesVars == <<items, libraryState>>

contentVars == <<db, tasks>>

loadVars == <<loadPc, loadResult, loadingAssets, pendingLazyLoadFiles>>

vars ==
  <<instances, instanceOrder, foregroundInstanceId, nextInstanceId,
    finderInstances, hookMode, localCurrentPath, localHistory,
    localHistoryIndex, storage, items, libraryState, db, tasks, loadPc,
    loadResult,
    loadingAssets, pendingLazyLoadFiles>>

\* ========================================================================
\* Instance / window manager
\* ========================================================================

\* foregroundInstanceId: null  (instance ids are "1", "2", ...; never "0")
Null == 0

\* The app ids the model launches: the critical file manager, a lazy
\* multi-window app and a lazy single-window app.
AppIds == {"finder", "textedit", "paint"}

\* Instance ids a caller can hand to an operation: the ids issued so far
\* (of open instances, and of closed ones whose window may still report).
InstanceIds == 1..nextInstanceId

\* The store's instance-manager slice as one value.
AppState == [instances |-> instances,
             instanceOrder |-> instanceOrder,
             foregroundInstanceId |-> foregroundInstanceId,
             nextInstanceId |-> nextInstanceId]

\* order.filter((x) => x !== id)
Without(order, id) == SelectSeq(order, LAMBDA x : x # id)

\* [...order.filter((x) => x !== id), id]
ToTail(order, id) == Append(Without(order, id), id)

\* Object.keys(instances).forEach(id => instances[id] = {...instances[id],
\*   isForeground: id === fg})
SetForegroundOnly(insts, fg) ==
  [id \in DOMAIN insts |-> [insts[id] EXCEPT !.isForeground = (id = fg)]]

\* An instance that is built in the foreground whatever the app.
NewInstance_Foreground(appId, isLazy) ==
  [appId |-> appId, isOpen |-> TRUE, isForeground |-> TRUE,
   isLoading |-> isLazy, isMinimized |-> FALSE]

\* An instance as createAppInstance builds it.
NewInstance(appId, isLazy) ==
  [appId |-> appId, isOpen |-> TRUE, isForeground |-> ~isLazy,
   isLoading |-> isLazy, isMinimized |-> FALSE]

\* The entry updateInstanceWindowState leaves behind for an id that is not in
\* the map: {position, size} alone, every flag undefined (falsy), no appId.
BareInstance ==
  [appId |-> "undefined", isOpen |-> FALSE, isForeground |-> FALSE,
   isLoading |-> FALSE, isMinimized |-> FALSE]

\* createAppInstance(appId): the new state; the created id is
\* s.nextInstanceId + 1.
createAppInstance(s, appId) ==
  LET nextNum  == s.nextInstanceId + 1
      isLazy   == appId # "finder"
      added    == [id \in DOMAIN s.instances \cup {nextNum} |->
                     IF id = nextNum THEN NewInstance(appId, isLazy)
                                     ELSE s.instances[id]]
      cleared  == IF isLazy THEN added
                  ELSE [id \in DOMAIN added |->
                          IF id # nextNum
                            THEN [added[id] EXCEPT !.isForeground = FALSE]
                            ELSE added[id]]
  IN [instances |-> cleared,
      instanceOrder |-> ToTail(s.instanceOrder, nextNum),
      foregroundInstanceId |->
        IF isLazy THEN s.foregroundInstanceId ELSE nextNum,
      nextInstanceId |-> nextNum]

\* markInstanceAsLoaded(instanceId)
markInstanceAsLoaded(s, instanceId) ==
  IF instanceId \notin DOMAIN s.instances
     \/ ~s.instances[instanceId].isLoading
  THEN s
  ELSE LET all == SetForegroundOnly(s.instances, instanceId)
       IN [s EXCEPT
             !.instances = [all EXCEPT ![instanceId] =
                 [s.instances[instanceId] EXCEPT !.isLoading = FALSE,
                                                 !.isForeground = TRUE]],
             !.instanceOrder = ToTail(s.instanceOrder, instanceId),
             !.foregroundInstanceId = instanceId]

\* The last id of order that is in ok, or null: the loop
\* "for (i = order.length - 1; i >= 0; i--) if (ok) { next = id; break; }".
LastWhere(order, ok) ==
  LET hits == {i \in 1..Len(order) : order[i] \in ok}
  IN IF hits = {} THEN Null
     ELSE order[CHOOSE i \in hits : \A j \in hits : j <= i]

\* closeAppInstance(instanceId)
closeAppInstance(s, instanceId) ==
  IF instanceId \notin DOMAIN s.instances \/ ~s.instances[instanceId].isOpen
  THEN s
  ELSE LET inst  == s.instances[instanceId]
           rest  == [id \in DOMAIN s.instances \ {instanceId} |->
                       s.instances[id]]
           order == Without(s.instanceOrder, instanceId)
           sameApp == LastWhere(order,
                        {id \in DOMAIN rest :
                           rest[id].appId = inst.appId /\ rest[id].isOpen})
           nextForeground ==
             IF sameApp # Null THEN sameApp
             ELSE IF Len(order) > 0 THEN order[Len(order)] ELSE Null
       IN [s EXCEPT
             !.instances = SetForegroundOnly(rest, nextForeground),
             !.instanceOrder = IF nextForeground # Null
                                 THEN ToTail(order, nextForeground)
                                 ELSE order,
             !.foregroundInstanceId = nextForeground]

\* bringInstanceToForeground(instanceId); instanceId = Null blurs everything.
bringInstanceToForeground(s, instanceId) ==
  IF instanceId # Null /\ instanceId \notin DOMAIN s.instances
  THEN s
  ELSE IF instanceId = Null
  THEN [s EXCEPT !.instances = SetForegroundOnly(s.instances, Null),
                 !.foregroundInstanceId = Null]
  ELSE [s EXCEPT !.instances = SetForegroundOnly(s.instances, instanceId),
                 !.instanceOrder = ToTail(s.instanceOrder, instanceId),
                 !.foregroundInstanceId = instanceId]

\* updateInstanceWindowState(instanceId, position, size): position and size
\* are not part of the model, so only the entry's existence is.
updateInstanceWindowState(s, instanceId) ==
  [s EXCEPT !.instances =
     [id \in DOMAIN s.instances \cup {instanceId} |->
        IF id \in DOMAIN s.instances THEN s.instances[id] ELSE BareInstance]]

\* minimizeInstance(instanceId)
minimizeInstance(s, instanceId) ==
  IF instanceId \notin DOMAIN s.instances
     \/ s.instances[instanceId].isMinimized
  THEN s
  ELSE LET nextForeground ==
             LastWhere(s.instanceOrder,
                       {id \in DOMAIN s.instances \ {instanceId} :
                          s.instances[id].isOpen
                          /\ ~s.instances[id].isMinimized})
           minimized == [s.instances EXCEPT ![instanceId] =
                           [@ EXCEPT !.isMinimized = TRUE,
                                     !.isForeground = FALSE]]
       IN [s EXCEPT
             !.instances =
               IF nextForeground # Null
                 THEN [minimized EXCEPT ![nextForeground] =
                         [@ EXCEPT !.isForeground = TRUE]]
                 ELSE minimized,
             !.foregroundInstanceId = nextForeground]

\* restoreInstance(instanceId) leaving the instance as it is
restoreInstance_Ignored(s, instanceId) == s

\* restoreInstance(instanceId)
restoreInstance(s, instanceId) ==
  IF instanceId \notin DOMAIN s.instances
     \/ ~s.instances[instanceId].isMinimized
  THEN s
  ELSE [s EXCEPT
          !.instances =
            [SetForegroundOnly(s.instances, Null) EXCEPT ![instanceId] =
               [s.instances[instanceId] EXCEPT !.isMinimized = FALSE,
                                               !.isForeground = TRUE]],
          !.instanceOrder = ToTail(s.instanceOrder, instanceId),
          !.foregroundInstanceId = instanceId]

\* appInstances.forEach(inst => { if (inst.isMinimized) restoreInstance(id) })
\* over the ids in ascending order (Object.values of integer-like keys).
RECURSIVE RestoreAll(_, _)
RestoreAll(s, ids) ==
  IF ids = {} THEN s
  ELSE LET id == CHOOSE x \in ids : \A y \in ids : x <= y
       IN RestoreAll(restoreInstance(s, id), ids \ {id})

\* Object.values(state.instances).filter(i => i.appId === appId && i.isOpen)
OpenOfApp(s, appId) ==
  {id \in DOMAIN s.instances :
     s.instances[id].appId = appId /\ s.instances[id].isOpen}

Max(S) == CHOOSE x \in S : \A y \in S : y <= x
Min(S) == CHOOSE x \in S : \A y \in S : x <= y

\* launchApp's supportsMultiWindow, and one that holds for every app
SupportsMultiWindow_Always(appId, multiWindow) == TRUE
SupportsMultiWindow(appId, multiWindow) ==
  multiWindow \/ appId = "textedit" \/ appId = "finder"

\* launchApp(appId, initialData, title, multiWindow): <<new state, returned id>>
launchApp(s, appId, multiWindow) ==
  LET appInstances == OpenOfApp(s, appId)
      allMinimized == \A id \in appInstances : s.instances[id].isMinimized
      supportsMultiWindow == SupportsMultiWindow(appId, multiWindow)
  IN IF appInstances # {} /\ allMinimized
     THEN LET lastRestoredId == Max(appInstances)
          IN <<bringInstanceToForeground(RestoreAll(s, appInstances),
                                         lastRestoredId),
               lastRestoredId>>
     ELSE IF ~supportsMultiWindow /\ appInstances # {}
     THEN LET existing == Min(appInstances)
          IN <<bringInstanceToForeground(s, existing), existing>>
     ELSE <<createAppInstance(s, appId), s.nextInstanceId + 1>>

\* ---- actions ----------------------------------------------------------

SetApp(s) ==
  /\ instances' = s.instances
  /\ instanceOrder' = s.instanceOrder
  /\ foregroundInstanceId' = s.foregroundInstanceId
  /\ nextInstanceId' = s.nextInstanceId
  /\ UNCHANGED <<navVars, storage>>

CreateAppInstance ==
  \E appId \in AppIds :
    /\ nextInstanceId < MaxInstances
    /\ SetApp(createAppInstance(AppState, appId))
    /\ UNCHANGED <<filesVars, contentVars, loadVars>>

LaunchApp ==
  \E appId \in AppIds, multiWindow \in BOOLEAN :
    /\ launchApp(AppState, appId, multiWindow)[1].nextInstanceId
         <= MaxInstances
    /\ SetApp(launchApp(AppState, appId, multiWindow)[1])
    /\ UNCHANGED <<filesVars, contentVars, loadVars>>

MarkInstanceAsLoaded ==
  \E id \in InstanceIds :
    /\ SetApp(markInstanceAsLoaded(AppState, id))
    /\ UNCHANGED <<filesVars, contentVars, loadVars>>

CloseAppInstance ==
  \E id \in InstanceIds :
    /\ SetApp(closeAppInstance(AppState, id))
    /\ UNCHANGED <<filesVars, contentVars, loadVars>>

BringInstanceToForeground ==
  \E id \in InstanceIds \cup {Null} :
    /\ SetApp(bringInstanceToForeground(AppState, id))
    /\ UNCHANGED <<filesVars, contentVars, loadVars>>

UpdateInstanceWindowState ==
  \E id \in InstanceIds :
    /\ SetApp(updateInstanceWindowState(AppState, id))
    /\ UNCHANGED <<filesVars, contentVars, loadVars>>

MinimizeInstance ==
  \E id \in InstanceIds :
    /\ SetApp(minimizeInstance(AppState, id))
    /\ UNCHANGED <<filesVars, contentVars, loadVars>>

RestoreInstance ==
  \E id \in InstanceIds :
    /\ SetApp(restoreInstance(AppState, id))
    /\ UNCHANGED <<filesVars, contentVars, loadVars>>

\* launchApp without the multiWindow option, as the Dock, the Desktop and
\* the menus call it.
LaunchAppDefault ==
  \E appId \in AppIds :
    /\ launchApp(AppState, appId, FALSE)[1].nextInstanceId <= MaxInstances
    /\ SetApp(launchApp(AppState, appId, FALSE)[1])
    /\ UNCHANGED <<filesVars, contentVars, loadVars>>

\* The calls a user's launching, focusing, minimizing, restoring and closing
\* of windows makes, and the mount of a launched window.
NextLaunch ==
  \/ LaunchAppDefault
  \/ MarkInstanceAsLoaded
  \/ CloseAppInstance
  \/ BringInstanceToForeground
  \/ MinimizeInstance
  \/ RestoreInstance

\* onRehydrateStorage's "Fix nextInstanceId", and a counter that is set to
\* the number of instances instead
FixNextInstanceId_Count(insts, next) == Cardinality(DOMAIN insts)
FixNextInstanceId(insts, next) ==
  IF DOMAIN insts # {} /\ Max(DOMAIN insts) >= next
    THEN Max(DOMAIN insts) + 1
    ELSE next

\* A reload of the page: the state that partialize persisted (the open
\* instances, instanceOrder filtered to them, foregroundInstanceId and
\* nextInstanceId), after onRehydrateStorage.
rehydrate(s) ==
  LET open == {id \in DOMAIN s.instances : s.instances[id].isOpen}
      persisted == [id \in open |-> s.instances[id]]
  IN [instances |-> persisted,
      instanceOrder |-> SelectSeq(s.instanceOrder, LAMBDA id : id \in open),
      foregroundInstanceId |-> s.foregroundInstanceId,
      nextInstanceId |-> FixNextInstanceId(persisted, s.nextInstanceId)]

Rehydrate ==
  /\ rehydrate(AppState).nextInstanceId <= MaxInstances
  /\ SetApp(rehydrate(AppState))
  /\ UNCHANGED <<filesVars, contentVars, loadVars>>

\* The instance methods, and reloads of the page between them.
NextPersist ==
  \/ CreateAppInstance
  \/ LaunchApp
  \/ MarkInstanceAsLoaded
  \/ CloseAppInstance
  \/ BringInstanceToForeground
  \/ UpdateInstanceWindowState
  \/ MinimizeInstance
  \/ RestoreInstance
  \/ Rehydrate

NextApp ==
  \/ CreateAppInstance
  \/ LaunchApp
  \/ MarkInstanceAsLoaded
  \/ CloseAppInstance
  \/ BringInstanceToForeground
  \/ UpdateInstanceWindowState
  \/ MinimizeInstance
  \/ RestoreInstance

\* ========================================================================
\* Metadata store (useFilesStore): the path -> item map
\* ========================================================================
\* A path is the sequence of its segments: "/" is <<>>, "/a/b" is <<"a","b">>.

Root == <<>>
DesktopPath == <<"Desktop">>
TrashPath == <<"Trash">>
\* originalPath / aliasTarget: undefined
NoPath == <<"(undefined)">>
\* uuid: undefined (directories, aliases)
NoUuid == 0

TrashEmptyIcon == "/icons/trash-empty.png"
TrashFullIcon == "/icons/trash-full.png"

\* Names of the items the callers create: at the top level, and below it.
UserNames == {"a", "b"}
ChildNames == {"a"}

RECURSIVE PathsOfLen(_)
PathsOfLen(n) ==
  IF n = 0 THEN {<<>>}
  ELSE IF n = 1 THEN {<<x>> : x \in UserNames}
  ELSE {Append(p, x) : p \in PathsOfLen(n - 1), x \in ChildNames}

\* The paths handed to addItem, removeItem, restoreItem, renameItem and
\* moveItem.
InputPaths == UNION {PathsOfLen(n) : n \in 1..MaxDepth}

\* `${baseName} ${counter}`: the numbered names createAlias derives.
Numbered(name, counter) ==
  CASE counter = 0 -> name
    [] name = "a" /\ counter = 1 -> "a 1"
    [] name = "a" /\ counter = 2 -> "a 2"
    [] name = "a" /\ counter = 3 -> "a 3"
    [] name = "b" /\ counter = 1 -> "b 1"
    [] name = "b" /\ counter = 2 -> "b 2"
    [] name = "b" /\ counter = 3 -> "b 3"
    [] OTHER -> name \o " " \o ToString(counter)

\* The names createAlias is called with, and the paths it can write.
AliasNames == {"a"}
AliasPaths ==
  {<<"Desktop", Numbered(n, k)>> : n \in AliasNames, k \in 0..MaxAliasNumber}

\* The Desktop paths handed to removeItem and restoreItem.
DesktopPaths == {DesktopPath} \cup AliasPaths

getParentPath(path) ==
  IF Len(path) <= 1 THEN Root ELSE SubSeq(path, 1, Len(path) - 1)

LastSegment(path) == IF path = Root THEN "" ELSE path[Len(path)]

\* itemPath.startsWith(dir + "/")   (for dir = "/" the prefix is "//", which
\* no path starts with)
IsUnder(itemPath, dir) ==
  /\ dir # Root
  /\ Len(itemPath) > Len(dir)
  /\ SubSeq(itemPath, 1, Len(dir)) = dir

\* newPath + itemPath.substring(oldPath.length)
Rebase(itemPath, oldPath, newPath) ==
  newPath \o SubSeq(itemPath, Len(oldPath) + 1, Len(itemPath))

\* A new item: status active, no trash fields, no alias fields.  deletedAt
\* is TRUE when the timestamp is set, FALSE when it is undefined.
NewItem(path, name, isDirectory, uuid, icon) ==
  [path |-> path, name |-> name, isDirectory |-> isDirectory,
   status |-> "active", uuid |-> uuid, originalPath |-> NoPath,
   deletedAt |-> FALSE, icon |-> icon, aliasType |-> "undefined",
   aliasTarget |-> NoPath]

\* The directories of the default manifest that the code names.
DefaultItems ==
  (Root :> NewItem(Root, "", TRUE, NoUuid, "undefined"))
  @@ (DesktopPath :> NewItem(DesktopPath, "Desktop", TRUE, NoUuid, "undefined"))
  @@ (<<"Documents">> :>
        NewItem(<<"Documents">>, "Documents", TRUE, NoUuid, "undefined"))
  @@ (<<"Images">> :> NewItem(<<"Images">>, "Images", TRUE, NoUuid, "undefined"))
  @@ (TrashPath :> NewItem(TrashPath, "Trash", TRUE, NoUuid, TrashEmptyIcon))

FilesState == [items |-> items, libraryState |-> libraryState]

\* {...its, [path]: item}
PutItem(its, path, item) ==
  [k \in DOMAIN its \cup {path} |-> IF k = path THEN item ELSE its[k]]

\* delete its[k] for every k in keys
DeleteKeys(its, keys) == [k \in DOMAIN its \ keys |-> its[k]]

\* uuidv4(): a uuid no item carries.
FreshUuid(its) ==
  LET used == {its[k].uuid : k \in DOMAIN its}
  IN CHOOSE n \in 1..(Cardinality(used) + 1) :
       n \notin used /\ \A m \in 1..(n - 1) : m \in used

\* (For C5: addItem regenerating the uuid of the item it overwrites.)
KeepUuid_Regenerated(existingUuid, newUuid) == newUuid

\* existingItem.uuid || newItem.uuid
KeepUuid(existingUuid, newUuid) ==
  IF existingUuid # NoUuid THEN existingUuid ELSE newUuid

\* "Update trash icon state" of removeItem and restoreItem.
UpdateTrashIcon(its) ==
  IF TrashPath \in DOMAIN its
  THEN [its EXCEPT ![TrashPath].icon =
          IF \A k \in DOMAIN its : its[k].status # "trashed"
            THEN TrashEmptyIcon ELSE TrashFullIcon]
  ELSE its

\* addItem's test of the parent directory, and one that accepts a trashed
\* parent
ParentUnusable_Missing(its, parentPath) ==
  /\ parentPath # Root
  /\ \/ parentPath \notin DOMAIN its
     \/ ~its[parentPath].isDirectory
ParentUnusable(its, parentPath) ==
  /\ parentPath # Root
  /\ \/ parentPath \notin DOMAIN its
     \/ ~its[parentPath].isDirectory
     \/ its[parentPath].status = "trashed"

\* addItem(itemData); itemData = [path, name, isDirectory, uuid, icon], a
\* field left out by the caller being NoUuid / "undefined".
addItem(s, itemData, fresh) ==
  LET path == itemData.path
      newUuid == IF itemData.uuid # NoUuid THEN itemData.uuid
                 ELSE IF ~itemData.isDirectory THEN fresh ELSE NoUuid
      parentPath == getParentPath(path)
  IN IF ParentUnusable(s.items, parentPath)
     THEN s
     ELSE IF path \in DOMAIN s.items
     THEN LET existingItem == s.items[path]
              updatedItem ==
                [existingItem EXCEPT
                   !.path = path,
                   !.name = itemData.name,
                   !.isDirectory = itemData.isDirectory,
                   !.icon = IF itemData.icon # "undefined"
                              THEN itemData.icon ELSE existingItem.icon,
                   !.status = "active",
                   !.uuid = KeepUuid(existingItem.uuid, newUuid)]
          IN [items |-> PutItem(s.items, path, updatedItem),
              libraryState |-> "loaded"]
     ELSE LET added == PutItem(s.items, path,
                         NewItem(path, itemData.name, itemData.isDirectory,
                                 newUuid, itemData.icon))
          IN [items |->
                IF parentPath = TrashPath
                   /\ s.items[TrashPath].icon # TrashFullIcon
                  THEN [added EXCEPT ![TrashPath].icon = TrashFullIcon]
                  ELSE added,
              libraryState |-> "loaded"]

\* removeItem(path, permanent)
removeItem(s, path, permanent) ==
  IF path \notin DOMAIN s.items THEN s
  ELSE LET itemToRemove == s.items[path]
           itemsToDelete ==
             {path} \cup (IF itemToRemove.isDirectory
                            THEN {k \in DOMAIN s.items : IsUnder(k, path)}
                            ELSE {})
           isPermanentDelete == permanent \/ itemToRemove.status = "trashed"
           newItems ==
             IF isPermanentDelete
             THEN DeleteKeys(s.items, itemsToDelete)
             ELSE [k \in DOMAIN s.items |->
                     IF k \in itemsToDelete /\ s.items[k].status = "active"
                       THEN [s.items[k] EXCEPT !.status = "trashed",
                                               !.originalPath = k,
                                               !.deletedAt = TRUE]
                       ELSE s.items[k]]
       IN [s EXCEPT !.items = UpdateTrashIcon(newItems)]

\* restoreItem(path)
restoreItem(s, path) ==
  IF path \notin DOMAIN s.items \/ s.items[path].status # "trashed" THEN s
  ELSE LET itemsToRestore ==
             {path} \cup (IF s.items[path].isDirectory
                            THEN {k \in DOMAIN s.items :
                                    IsUnder(k, path)
                                    /\ s.items[k].status = "trashed"}
                            ELSE {})
           newItems ==
             [k \in DOMAIN s.items |->
                IF k \in itemsToRestore /\ s.items[k].status = "trashed"
                  THEN [s.items[k] EXCEPT !.status = "active",
                                          !.originalPath = NoPath,
                                          !.deletedAt = FALSE]
                  ELSE s.items[k]]
       IN [s EXCEPT !.items = UpdateTrashIcon(newItems)]

\* getTrashItems(), as paths
getTrashItems(s) == {k \in DOMAIN s.items : s.items[k].status = "trashed"}

\* getItemsInPath(path): the items listed, and a listing of /Trash that
\* shows the top-level trashed items only
getItemsInPath_TopLevel(s, path) ==
  LET allItems == {s.items[k] : k \in DOMAIN s.items}
  IN IF path = Root
       THEN {item \in allItems : /\ item.status = "active"
                                 /\ item.path # Root
                                 /\ getParentPath(item.path) = Root}
     ELSE IF path = TrashPath
       THEN {item \in allItems : /\ item.status = "trashed"
                                 /\ getParentPath(item.path) = Root}
     ELSE {item \in allItems : /\ item.status = "active"
                               /\ getParentPath(item.path) = path}
getItemsInPath(s, path) ==
  LET allItems == {s.items[k] : k \in DOMAIN s.items}
  IN IF path = Root
       THEN {item \in allItems : /\ item.status = "active"
                                 /\ item.path # Root
                                 /\ getParentPath(item.path) = Root}
     ELSE IF path = TrashPath
       THEN {item \in allItems : item.status = "trashed"}
     ELSE {item \in allItems : /\ item.status = "active"
                               /\ getParentPath(item.path) = path}

\* trashedItems.forEach(item => removeItem(item.path, true)); the result
\* does not depend on the order of the calls.
RECURSIVE RemoveAllPermanently(_, _)
RemoveAllPermanently(s, paths) ==
  IF paths = {} THEN s
  ELSE LET p == CHOOSE x \in paths : TRUE
       IN RemoveAllPermanently(removeItem(s, p, TRUE), paths \ {p})

\* emptyTrash(): <<new state, uuids returned>>
emptyTrash(s) ==
  LET trashedItems == getTrashItems(s)
  IN <<RemoveAllPermanently(s, trashedItems),
       {s.items[k].uuid : k \in {t \in trashedItems :
                                   ~s.items[t].isDirectory
                                   /\ s.items[t].uuid # NoUuid}}>>

\* The children loop of renameItem and moveItem: every key under oldPath is
\* deleted and its item written at the rebased key (an item already stored
\* at a rebased key is overwritten).  Child(k) is the item written for k.
\* (A rebased key that is itself a key under oldPath needs four path
\* segments; see MaxDepth.)
MovedKeys(its, oldPath) == {k \in DOMAIN its : IsUnder(k, oldPath)}

\* renameItem(oldPath, newPath, newName)
renameItem(s, oldPath, newPath, newName) ==
  IF oldPath \notin DOMAIN s.items \/ s.items[oldPath].status # "active"
  THEN s
  ELSE IF newPath \in DOMAIN s.items THEN s
  ELSE LET itemToRename == s.items[oldPath]
           top == PutItem(DeleteKeys(s.items, {oldPath}), newPath,
                          [itemToRename EXCEPT !.path = newPath,
                                               !.name = newName])
           moved == IF itemToRename.isDirectory
                      THEN MovedKeys(s.items, oldPath) ELSE {}
           targets == {Rebase(k, oldPath, newPath) : k \in moved}
           Source(t) == CHOOSE k \in moved : Rebase(k, oldPath, newPath) = t
       IN [s EXCEPT !.items =
             [k \in ((DOMAIN top) \ moved) \cup targets |->
                IF k \in targets
                  THEN [s.items[Source(k)] EXCEPT
                          !.path = k,
                          !.originalPath =
                            IF s.items[Source(k)].status = "trashed"
                              THEN k ELSE NoPath]
                  ELSE top[k]]]

\* moveItem's "sourceItem.isDirectory &&
\* destinationPath.startsWith(sourcePath + "/")", and a check that never
\* refuses
IntoItself_Never(sourceItem, sourcePath, destinationPath) == FALSE
IntoItself(sourceItem, sourcePath, destinationPath) ==
  sourceItem.isDirectory /\ IsUnder(destinationPath, sourcePath)

\* moveItem(sourcePath, destinationPath): <<new state, success>>
moveItem(s, sourcePath, destinationPath) ==
  IF sourcePath \notin DOMAIN s.items
     \/ s.items[sourcePath].status # "active"
  THEN <<s, FALSE>>
  ELSE IF getParentPath(destinationPath) \notin DOMAIN s.items
          \/ ~s.items[getParentPath(destinationPath)].isDirectory
  THEN <<s, FALSE>>
  ELSE IF destinationPath \in DOMAIN s.items THEN <<s, FALSE>>
  ELSE IF IntoItself(s.items[sourcePath], sourcePath, destinationPath)
  THEN <<s, FALSE>>
  ELSE LET sourceItem == s.items[sourcePath]
           top == PutItem(DeleteKeys(s.items, {sourcePath}), destinationPath,
                          [sourceItem EXCEPT !.path = destinationPath])
           moved == IF sourceItem.isDirectory
                      THEN MovedKeys(s.items, sourcePath) ELSE {}
           targets == {Rebase(k, sourcePath, destinationPath) : k \in moved}
           Source(t) ==
             CHOOSE k \in moved : Rebase(k, sourcePath, destinationPath) = t
       IN <<[s EXCEPT !.items =
               [k \in ((DOMAIN top) \ moved) \cup targets |->
                  IF k \in targets
                    THEN [s.items[Source(k)] EXCEPT !.path = k]
                    ELSE top[k]]],
            TRUE>>

\* A createAlias that always takes the plain name.
AliasCounter_Plain(its, name) == 0

\* createAlias's "while (isActiveAtPath(finalAliasPath))": the first counter
\* (0: the plain name) whose path holds no active item.
AliasCounter(its, name) ==
  LET Active(c) == LET q == <<"Desktop", Numbered(name, c)>>
                   IN q \in DOMAIN its /\ its[q].status = "active"
  IN CHOOSE c \in 0..Cardinality(DOMAIN its) :
       ~Active(c) /\ \A d \in 0..(c - 1) : Active(d)

\* createAlias(targetPath, aliasName, aliasType, targetAppId), aliasName not
\* empty; targetAppId is given exactly for the app aliases.
createAlias(s, targetPath, aliasName, aliasType, targetAppId) ==
  IF DesktopPath \notin DOMAIN s.items \/ ~s.items[DesktopPath].isDirectory
  THEN s
  ELSE LET isApp == aliasType = "app"
           hasOriginal == ~isApp /\ targetPath \in DOMAIN s.items
           icon == IF isApp THEN "undefined"
                   ELSE IF hasOriginal THEN s.items[targetPath].icon
                   ELSE "/icons/default/file.png"
           name == aliasName
           aliasPath == <<"Desktop", name>>
           newItems ==
             IF aliasPath \in DOMAIN s.items
                /\ s.items[aliasPath].status = "trashed"
               THEN DeleteKeys(s.items, {aliasPath}) ELSE s.items
           finalAliasPath ==
             <<"Desktop", Numbered(name, AliasCounter(newItems, name))>>
           aliasItem ==
             [NewItem(finalAliasPath, LastSegment(finalAliasPath), FALSE,
                      NoUuid, icon)
                EXCEPT !.aliasType = aliasType,
                       !.aliasTarget = IF isApp THEN <<targetAppId>>
                                       ELSE targetPath]
       IN [s EXCEPT !.items = PutItem(newItems, finalAliasPath, aliasItem)]

\* ---- actions ----------------------------------------------------------

SetFiles(s) ==
  /\ items' = s.items
  /\ libraryState' = s.libraryState

\* The item data addItem is called with for a path.
ItemData(path, isDirectory) ==
  [path |-> path, name |-> LastSegment(path), isDirectory |-> isDirectory,
   uuid |-> NoUuid, icon |-> "undefined"]

\* No resulting key is longer than MaxDepth segments.
FitsDepth(oldPath, newPath) ==
  \A k \in DOMAIN items :
    (k = oldPath \/ (items[oldPath].isDirectory /\ IsUnder(k, oldPath)))
      => Len(Rebase(k, oldPath, newPath)) <= MaxDepth

AddItem ==
  \E path \in InputPaths, isDirectory \in BOOLEAN :
    /\ path \in DOMAIN items \/ Cardinality(DOMAIN items) < MaxItems
    /\ \/ isDirectory
       \/ path \in DOMAIN items /\ items[path].uuid # NoUuid
       \/ FreshUuid(items) <= MaxFiles
    /\ SetFiles(addItem(FilesState, ItemData(path, isDirectory),
                        FreshUuid(items)))
    /\ UNCHANGED <<appVars, contentVars, loadVars>>

RemoveItem ==
  \E path \in InputPaths, permanent \in BOOLEAN :
    /\ SetFiles(removeItem(FilesState, path, permanent))
    /\ UNCHANGED <<appVars, contentVars, loadVars>>

RestoreItem ==
  \E path \in InputPaths :
    /\ SetFiles(restoreItem(FilesState, path))
    /\ UNCHANGED <<appVars, contentVars, loadVars>>

EmptyTrash ==
  /\ SetFiles(emptyTrash(FilesState)[1])
  /\ UNCHANGED <<appVars, contentVars, loadVars>>

RenameItem ==
  \E oldPath \in InputPaths, newPath \in InputPaths :
    /\ oldPath \in DOMAIN items => FitsDepth(oldPath, newPath)
    /\ SetFiles(renameItem(FilesState, oldPath, newPath,
                           LastSegment(newPath)))
    /\ UNCHANGED <<appVars, contentVars, loadVars>>

\* The callers move an item into a folder under its own name.
MoveItem ==
  \E sourcePath \in InputPaths, destinationPath \in InputPaths :
    /\ LastSegment(destinationPath) = LastSegment(sourcePath)
    /\ sourcePath \in DOMAIN items => FitsDepth(sourcePath, destinationPath)
    /\ SetFiles(moveItem(FilesState, sourcePath, destinationPath)[1])
    /\ UNCHANGED <<appVars, contentVars, loadVars>>

\* The paths an alias is made of: an item's, or another alias's.
AliasTargets == InputPaths \cup AliasPaths

CreateAlias ==
  \E targetPath \in AliasTargets, aliasName \in AliasNames,
     aliasType \in {"file", "app"} :
    /\ Cardinality(DOMAIN items) < MaxItems
    /\ AliasCounter(items, aliasName) <= MaxAliasNumber
    /\ SetFiles(createAlias(FilesState, targetPath, aliasName, aliasType,
                            "textedit"))
    /\ UNCHANGED <<appVars, contentVars, loadVars>>

\* addItem and moveItem on folders nested up to MaxNesting deep.
NestedPaths == UNION {PathsOfLen(n) : n \in 1..MaxNesting}

AddNestedItem ==
  \E path \in NestedPaths, isDirectory \in BOOLEAN :
    /\ path \in DOMAIN items \/ Cardinality(DOMAIN items) < MaxItems
    /\ \/ isDirectory
       \/ path \in DOMAIN items /\ items[path].uuid # NoUuid
       \/ FreshUuid(items) <= MaxFiles
    /\ SetFiles(addItem(FilesState, ItemData(path, isDirectory),
                        FreshUuid(items)))
    /\ UNCHANGED <<appVars, contentVars, loadVars>>

MoveNestedItem ==
  \E sourcePath \in NestedPaths, destinationPath \in NestedPaths :
    /\ LastSegment(destinationPath) = LastSegment(sourcePath)
    /\ \A k \in DOMAIN items :
         (k = sourcePath
          \/ (sourcePath \in DOMAIN items /\ items[sourcePath].isDirectory
              /\ IsUnder(k, sourcePath)))
           => Len(Rebase(k, sourcePath, destinationPath)) <= MaxNesting
    /\ SetFiles(moveItem(FilesState, sourcePath, destinationPath)[1])
    /\ UNCHANGED <<appVars, contentVars, loadVars>>

RemoveNestedItem ==
  \E path \in NestedPaths, permanent \in BOOLEAN :
    /\ SetFiles(removeItem(FilesState, path, permanent))
    /\ UNCHANGED <<appVars, contentVars, loadVars>>

NextNested ==
  \/ AddNestedItem
  \/ MoveNestedItem
  \/ RemoveNestedItem

NextFiles ==
  \/ AddItem
  \/ RemoveItem
  \/ RestoreItem
  \/ EmptyTrash
  \/ RenameItem
  \/ MoveItem

\* removeItem / restoreItem on the Desktop folder and its aliases.
RemoveDesktopItem ==
  \E path \in DesktopPaths, permanent \in BOOLEAN :
    /\ SetFiles(removeItem(FilesState, path, permanent))
    /\ UNCHANGED <<appVars, contentVars, loadVars>>

RestoreDesktopItem ==
  \E path \in DesktopPaths :
    /\ SetFiles(restoreItem(FilesState, path))
    /\ UNCHANGED <<appVars, contentVars, loadVars>>

\* ---- navigation of a Finder window (useFileSystem) ---------------------
\* A path string is the sequence of its tokens here, "/" being a token:
\* "/" is <<"/">>, "/a/b" is <<"/", "a", "/", "b">>, "a" is <<"a">>.
Slash == <<"/">>

\* The paths navigateToPath is called with, and the initial paths.
NavInputs ==
  {Slash, <<"/", "a">>, <<"a">>, <<"/", "b">>, <<"/", "a", "/", "b">>}
InitialPaths == {Slash, <<"/", "a">>}

\* The id of the Finder window's instance.
FinderInstanceId == "1"

\* useFinderStore.createInstance(instanceId, initialPath): the record of a
\* new window.
createInstance(insts, instanceId, initialPath) ==
  (instanceId :> [currentPath |-> initialPath,
                  navigationHistory |-> <<initialPath>>,
                  navigationIndex |-> 0]) @@ insts

\* useFinderStore.updateInstance(instanceId, updates): a shallow merge.
updateInstance(insts, instanceId, path, hist, index) ==
  IF instanceId \notin DOMAIN insts THEN insts
  ELSE [insts EXCEPT ![instanceId] =
          [currentPath |-> path, navigationHistory |-> hist,
           navigationIndex |-> index]]

\* "instanceId && finderInstance"
HasInstance ==
  hookMode = "instance" /\ FinderInstanceId \in DOMAIN finderInstances
finderInstance == finderInstances[FinderInstanceId]

\* "Determine which state to use": x || y takes y when x is undefined, an
\* empty string or 0.
currentPath ==
  IF HasInstance /\ finderInstance.currentPath # NoPath
    THEN finderInstance.currentPath ELSE localCurrentPath
history ==
  IF HasInstance THEN finderInstance.navigationHistory ELSE localHistory
historyIndex ==
  IF HasInstance /\ finderInstance.navigationIndex # 0
    THEN finderInstance.navigationIndex ELSE localHistoryIndex

\* What a functional updater gets as prev: the instance's field, or the
\* local state.
PrevHistoryIndex ==
  IF HasInstance THEN finderInstance.navigationIndex ELSE localHistoryIndex

\* setHistory(hist); setHistoryIndex(index); setCurrentPath(path)
SetNavigation(hist, index, path) ==
  IF HasInstance
    THEN /\ finderInstances' = updateInstance(finderInstances,
                                 FinderInstanceId, path, hist, index)
         /\ UNCHANGED <<hookMode, localCurrentPath, localHistory,
                        localHistoryIndex>>
    ELSE /\ localHistory' = hist
         /\ localHistoryIndex' = index
         /\ localCurrentPath' = path
         /\ UNCHANGED <<finderInstances, hookMode>>

\* history[i] of a JavaScript array: undefined outside it.
HistoryAt(hist, i) == IF i + 1 \in DOMAIN hist THEN hist[i + 1] ELSE NoPath

\* prev.slice(0, end)
Slice(hist, end) ==
  SubSeq(hist, 1, IF end > Len(hist) THEN Len(hist) ELSE end)

\* path.startsWith("/") ? path : `/${path}`
NormalizedPath(path) ==
  IF path # <<>> /\ path[1] = "/" THEN path ELSE Slash \o path

\* parts.join("/")
RECURSIVE Join(_)
Join(parts) ==
  IF Len(parts) <= 1 THEN parts
  ELSE <<parts[1], "/">> \o Join(Tail(parts))

\* the hook's getParentPath(path)
hookGetParentPath(path) ==
  LET IsPart(t) == t # "/"
      parts == SelectSeq(path, IsPart)
  IN IF path = Slash THEN Slash
     ELSE IF Len(parts) <= 1 THEN Slash
     ELSE Slash \o Join(SubSeq(parts, 1, Len(parts) - 1))

NavigateToPathOf(path) ==
  /\ hookMode # "unmounted"
  /\ LET normalizedPath == NormalizedPath(path)
         newHistory == Append(Slice(history, historyIndex + 1),
                              normalizedPath)
     IN IF normalizedPath # currentPath
          THEN /\ Len(newHistory) <= MaxHistory
               /\ SetNavigation(newHistory, PrevHistoryIndex + 1,
                                normalizedPath)
          ELSE UNCHANGED navVars
  /\ UNCHANGED <<instanceVars, storage, filesVars, contentVars, loadVars>>

NavigateToPath == \E path \in NavInputs : NavigateToPathOf(path)

NavigateUp ==
  /\ hookMode # "unmounted"
  /\ currentPath # Slash
  /\ NavigateToPathOf(hookGetParentPath(currentPath))

NavigateBack ==
  /\ hookMode # "unmounted"
  /\ IF historyIndex > 0
       THEN SetNavigation(history, historyIndex - 1,
                          HistoryAt(history, historyIndex - 1))
       ELSE UNCHANGED navVars
  /\ UNCHANGED <<instanceVars, storage, filesVars, contentVars, loadVars>>

NavigateForward ==
  /\ hookMode # "unmounted"
  /\ IF historyIndex < Len(history) - 1
       THEN SetNavigation(history, historyIndex + 1,
                          HistoryAt(history, historyIndex + 1))
       ELSE UNCHANGED navVars
  /\ UNCHANGED <<instanceVars, storage, filesVars, contentVars, loadVars>>

\* useFileSystem(initialPath) is mounted without an instanceId.
MountLocal ==
  \E initialPath \in InitialPaths :
    /\ hookMode = "unmounted"
    /\ hookMode' = "local"
    /\ localCurrentPath' = initialPath
    /\ localHistory' = <<initialPath>>
    /\ localHistoryIndex' = 0
    /\ UNCHANGED <<finderInstances, instanceVars, storage, filesVars,
                   contentVars, loadVars>>

\* The Finder window is mounted with its instanceId: the hook's useState
\* calls take the instance's fields when the instance is there (kept from
\* before the page was loaded), and the component's effect creates the
\* instance when it is not.
MountInstance ==
  /\ hookMode = "unmounted"
  /\ hookMode' = "instance"
  /\ IF FinderInstanceId \in DOMAIN finderInstances
       THEN /\ localCurrentPath' = finderInstance.currentPath
            /\ localHistory' = finderInstance.navigationHistory
            /\ localHistoryIndex' = finderInstance.navigationIndex
            /\ UNCHANGED finderInstances
       ELSE \E initialPath \in InitialPaths :
              /\ localCurrentPath' = initialPath
              /\ localHistory' = <<initialPath>>
              /\ localHistoryIndex' = 0
              /\ finderInstances' = createInstance(finderInstances,
                                      FinderInstanceId, initialPath)
  /\ UNCHANGED <<instanceVars, storage, filesVars, contentVars, loadVars>>

\* The page is left or the window rendered anew: the hook's local state is
\* gone, the Finder store keeps its instances.
Unmount ==
  /\ hookMode # "unmounted"
  /\ hookMode' = "unmounted"
  /\ localCurrentPath' = Slash
  /\ localHistory' = <<Slash>>
  /\ localHistoryIndex' = 0
  /\ UNCHANGED <<finderInstances, instanceVars, storage, filesVars,
                 contentVars, loadVars>>

\* The window is closed: removeInstance(instanceId), and the hook goes.
CloseFinder ==
  /\ hookMode = "instance"
  /\ hookMode' = "unmounted"
  /\ finderInstances' = <<>>
  /\ localCurrentPath' = Slash
  /\ localHistory' = <<Slash>>
  /\ localHistoryIndex' = 0
  /\ UNCHANGED <<instanceVars, storage, filesVars, contentVars, loadVars>>

NextNav ==
  \/ MountLocal
  \/ MountInstance
  \/ Unmount
  \/ CloseFinder
  \/ NavigateToPath
  \/ NavigateUp
  \/ NavigateBack
  \/ NavigateForward

\* ---- opening an item (useFileSystem.handleFileOpen) ---------------------

\* handleFileOpen: const maxDepth = 10
maxDepth == 10

\* fileMetadata?.aliasType && fileMetadata?.aliasTarget
IsAlias(its, path) ==
  /\ path \in DOMAIN its
  /\ its[path].aliasType # "undefined"
  /\ its[path].aliasTarget # NoPath

\* visitedPaths.has(currentFile.path)
Visited_Never(visitedPaths, path) == FALSE
Visited(visitedPaths, path) == path \in visitedPaths

\* How the alias loop of handleFileOpen is left, from the state it has at
\* the top of an iteration: outcome "circular", "targetNotFound" and
\* "maxDepth" are its bare returns, "launchApp" the app alias, "resolved"
\* the fall-through with currentFile = path; steps counts the iterations.
RECURSIVE ResolveAlias(_, _, _, _)
ResolveAlias(its, path, visitedPaths, depth) ==
  LET Left(outcome, d) ==
        [outcome |-> outcome, path |-> path, steps |-> d]
  IN IF depth >= maxDepth THEN Left("maxDepth", depth)
     ELSE IF ~IsAlias(its, path)
     THEN IF depth + 1 >= maxDepth THEN Left("maxDepth", depth + 1)
                                   ELSE Left("resolved", depth + 1)
     ELSE IF Visited(visitedPaths, path) THEN Left("circular", depth + 1)
     ELSE IF its[path].aliasType = "app" THEN Left("launchApp", depth + 1)
     ELSE IF its[path].aliasTarget \notin DOMAIN its
     THEN Left("targetNotFound", depth + 1)
     ELSE ResolveAlias(its, its[its[path].aliasTarget].path,
                       visitedPaths \cup {path}, depth + 1)

\* useLaunchApp's launchApp(appId) without options: it restores the app's
\* instances when all are minimized, as the store's launchApp does, and
\* else calls the store's launchApp with multiWindow undefined.
useLaunchApp(s, appId) == launchApp(s, appId, FALSE)

\* handleFileOpen(file) for file.path = path: the instance manager after it.
\* A resolved directory is navigated to (the Finder window's own state) and
\* a resolved file outside /Applications, /Documents, /Images and /Applets
\* has no handler, so only an app alias changes the instance manager.
handleFileOpen(s, its, path) ==
  LET r == ResolveAlias(its, path, {}, 0)
  IN IF r.outcome = "launchApp"
       THEN useLaunchApp(s, its[r.path].aliasTarget[1])[1]
       ELSE s

\* The items the Desktop and the Finder window at "/" show.
OpenPaths == PathsOfLen(1) \cup AliasPaths

HandleFileOpen ==
  \E path \in OpenPaths :
    /\ handleFileOpen(AppState, items, path).nextInstanceId <= MaxInstances
    /\ SetApp(handleFileOpen(AppState, items, path))
    /\ UNCHANGED <<filesVars, contentVars, loadVars>>

\* addItem of a top-level item, the target of a file alias.
AddTopLevelItem ==
  \E path \in PathsOfLen(1), isDirectory \in BOOLEAN :
    /\ path \in DOMAIN items \/ Cardinality(DOMAIN items) < MaxItems
    /\ \/ isDirectory
       \/ path \in DOMAIN items /\ items[path].uuid # NoUuid
       \/ FreshUuid(items) <= MaxFiles
    /\ SetFiles(addItem(FilesState, ItemData(path, isDirectory),
                        FreshUuid(items)))
    /\ UNCHANGED <<appVars, contentVars, loadVars>>

NextAlias ==
  \/ CreateAlias
  \/ RemoveDesktopItem
  \/ RestoreDesktopItem
  \/ EmptyTrash
  \/ AddTopLevelItem
  \/ HandleFileOpen


\* ========================================================================
\* File system facade (useFileSystem) over the content store (IndexedDB)
\* ========================================================================
\* A facade call runs up to its first await inside its action; what is left
\* of it is a task, resumed by the Task* actions once per awaited
\* dbOperations call.  The dbOperations calls themselves succeed.

DocumentsPath == <<"Documents">>
ImagesPath == <<"Images">>

\* STORES
Stores == {"documents", "images", "trash", "custom_wallpapers", "applets"}

\* path.startsWith("/Documents/") ? DOCUMENTS
\*   : path.startsWith("/Images/") ? IMAGES : null
StoreOfPath(path) ==
  IF Len(path) >= 2 /\ path[1] = "Documents" THEN "documents"
  ELSE IF Len(path) >= 2 /\ path[1] = "Images" THEN "images"
  ELSE "null"

\* saveFile's variant, which also knows "/Applets/"
StoreOfSavedPath(path) ==
  IF Len(path) >= 2 /\ path[1] = "Applets" THEN "applets"
  ELSE StoreOfPath(path)

\* moveFile's targetFolderPath.startsWith("/Documents") ? DOCUMENTS
\*   : targetFolderPath.startsWith("/Images") ? IMAGES : null
StoreOfTargetFolder(path) ==
  IF Len(path) >= 1 /\ path[1] = "Documents" THEN "documents"
  ELSE IF Len(path) >= 1 /\ path[1] = "Images" THEN "images"
  ELSE "null"

\* The folders and files the facade is called on.
FacadeFolders == {DocumentsPath, ImagesPath}
FacadeNames == {"a", "b"}
FacadeFiles == {<<f[1], n>> : f \in FacadeFolders, n \in FacadeNames}

\* The rest of a facade call: the awaited dbOperations call it is suspended
\* at (pc), and the values it captured before.
Task(op, pc, uuid, from, to, sourcePath, newPath) ==
  [op |-> op, pc |-> pc, uuid |-> uuid, from |-> from, to |-> to,
   sourcePath |-> sourcePath, newPath |-> newPath]

Suspend(t) == tasks (+) SetToBag({t})
Resume(t, next) == (tasks (-) SetToBag({t})) (+) SetToBag({next})
Finish(t) == tasks (-) SetToBag({t})

\* saveFile({path, name, content})
SaveFileAt(path) ==
    LET uuid == IF path \in DOMAIN items THEN items[path].uuid ELSE NoUuid
        metadata == [path |-> path, name |-> LastSegment(path),
                     isDirectory |-> FALSE, uuid |-> uuid,
                     icon |-> "/icons/file.png"]
        s == addItem(FilesState, metadata, FreshUuid(items))
        saved == path \in DOMAIN s.items /\ s.items[path].uuid # NoUuid
        storeName == StoreOfSavedPath(path)
    IN /\ BagCardinality(tasks) < MaxTasks
       /\ uuid # NoUuid \/ FreshUuid(items) <= MaxFiles
       /\ SetFiles(s)
       /\ tasks' = IF saved /\ storeName # "null"
                     THEN Suspend(Task("saveFile", "put", s.items[path].uuid,
                                       "null", storeName, path, NoPath))
                     ELSE tasks
       /\ UNCHANGED <<appVars, db, loadVars>>

SaveFile == \E path \in FacadeFiles : SaveFileAt(path)

\* moveToTrash(fileMetadata), fileMetadata being the stored item
MoveToTrash ==
  \E path \in FacadeFiles \cup FacadeFolders :
    /\ BagCardinality(tasks) < MaxTasks
    /\ path \in DOMAIN items
    /\ LET fileMetadata == items[path]
           storeName == StoreOfPath(path)
       IN IF fileMetadata.status = "trashed"
          THEN UNCHANGED <<filesVars, tasks>>
          ELSE /\ SetFiles(removeItem(FilesState, path, FALSE))
               /\ tasks' =
                    IF storeName # "null" /\ ~fileMetadata.isDirectory
                       /\ fileMetadata.uuid # NoUuid
                      THEN Suspend(Task("moveToTrash", "get",
                                        fileMetadata.uuid, storeName, "trash",
                                        path, NoPath))
                      ELSE tasks
    /\ UNCHANGED <<appVars, db, loadVars>>

\* restoreFromTrash(itemToRestore)
RestoreFromTrash ==
  \E path \in FacadeFiles \cup FacadeFolders :
    /\ BagCardinality(tasks) < MaxTasks
    /\ IF path \notin DOMAIN items
          \/ items[path].status # "trashed"
          \/ items[path].originalPath = NoPath
       THEN UNCHANGED <<filesVars, tasks>>
       ELSE LET fileMetadata == items[path]
                targetStoreName == StoreOfPath(fileMetadata.originalPath)
            IN /\ SetFiles(restoreItem(FilesState, path))
               /\ tasks' =
                    IF targetStoreName # "null" /\ ~fileMetadata.isDirectory
                       /\ fileMetadata.uuid # NoUuid
                      THEN Suspend(Task("restoreFromTrash", "get",
                                        fileMetadata.uuid, "trash",
                                        targetStoreName, path, NoPath))
                      ELSE tasks
    /\ UNCHANGED <<appVars, db, loadVars>>

\* moveFile's three early returns of false: a directory as source, a
\* target that is no directory, a taken name.
moveFileRejects(its, path, targetFolderPath) ==
  \/ its[path].isDirectory
  \/ targetFolderPath \notin DOMAIN its
  \/ ~its[targetFolderPath].isDirectory
  \/ Append(targetFolderPath, its[path].name) \in DOMAIN its

\* moveFile(sourceFile, targetFolderPath), sourceFile being the stored item
MoveFileOf(path, targetFolderPath) ==
    /\ BagCardinality(tasks) < MaxTasks
    /\ path \in DOMAIN items
    /\ LET sourceFile == items[path]
           newPath == Append(targetFolderPath, sourceFile.name)
           sourceStoreName == StoreOfPath(path)
           targetStoreName == StoreOfTargetFolder(targetFolderPath)
       IN IF moveFileRejects(items, path, targetFolderPath)
          THEN UNCHANGED <<filesVars, tasks>>
          ELSE IF /\ sourceStoreName # "null" /\ targetStoreName # "null"
                  /\ sourceStoreName # targetStoreName
                  /\ sourceFile.uuid # NoUuid
          THEN /\ tasks' = Suspend(Task("moveFile", "get", sourceFile.uuid,
                                        sourceStoreName, targetStoreName,
                                        path, newPath))
               /\ UNCHANGED filesVars
          ELSE /\ SetFiles(moveItem(FilesState, path, newPath)[1])
               /\ UNCHANGED tasks
    /\ UNCHANGED <<appVars, db, loadVars>>

MoveFile ==
  \E path \in FacadeFiles, targetFolderPath \in FacadeFolders :
    MoveFileOf(path, targetFolderPath)

\* renameFile(oldPath, newName)
RenameFile ==
  \E oldPath \in FacadeFiles, newName \in FacadeNames :
    /\ BagCardinality(tasks) < MaxTasks
    /\ LET newPath == Append(getParentPath(oldPath), newName)
           storeName == StoreOfPath(oldPath)
       IN IF oldPath \notin DOMAIN items \/ newPath \in DOMAIN items
          THEN UNCHANGED <<filesVars, tasks>>
          ELSE /\ SetFiles(renameItem(FilesState, oldPath, newPath, newName))
               /\ tasks' =
                    IF ~items[oldPath].isDirectory
                       /\ items[oldPath].uuid # NoUuid /\ storeName # "null"
                      THEN Suspend(Task("renameFile", "get",
                                        items[oldPath].uuid, storeName,
                                        storeName, oldPath, newPath))
                      ELSE tasks
    /\ UNCHANGED <<appVars, db, loadVars>>

\* The code after a task's last await: moveFile's fileStore.moveItem.
AfterLastAwait(t) ==
  IF t.op = "moveFile"
  THEN SetFiles(moveItem(FilesState, t.sourcePath, t.newPath)[1])
  ELSE UNCHANGED filesVars

\* await dbOperations.get(from, uuid), and "if (content)"
TaskGet ==
  \E t \in BagToSet(tasks) :
    /\ t.pc = "get"
    /\ IF t.uuid \in db[t.from]
       THEN /\ tasks' = Resume(t, [t EXCEPT !.pc = "put"])
            /\ UNCHANGED filesVars
       ELSE /\ tasks' = Finish(t)
            /\ AfterLastAwait(t)
    /\ UNCHANGED <<appVars, db, loadVars>>

\* await dbOperations.put(to, content, uuid)
TaskPut ==
  \E t \in BagToSet(tasks) :
    /\ t.pc = "put"
    /\ db' = [db EXCEPT ![t.to] = @ \cup {t.uuid}]
    /\ tasks' = IF t.op \in {"saveFile", "renameFile"}
                  THEN Finish(t)
                  ELSE Resume(t, [t EXCEPT !.pc = "delete"])
    /\ UNCHANGED <<appVars, filesVars, loadVars>>

\* await dbOperations.delete(from, uuid)
TaskDelete ==
  \E t \in BagToSet(tasks) :
    /\ t.pc = "delete"
    /\ db' = [db EXCEPT ![t.from] = @ \ {t.uuid}]
    /\ tasks' = Finish(t)
    /\ AfterLastAwait(t)
    /\ UNCHANGED <<appVars, loadVars>>

\* The facade's emptyTrash(): fileStore.emptyTrash(), then one awaited
\* dbOperations.delete(STORES.TRASH, uuid) per returned uuid.
EmptyTrashFacade ==
  LET r == emptyTrash(FilesState)
  IN /\ BagCardinality(tasks) < MaxTasks
     /\ SetFiles(r[1])
     /\ tasks' = IF r[2] # {}
                   THEN Suspend([op |-> "emptyTrash", pc |-> "deleteTrash",
                                 uuids |-> r[2]])
                   ELSE tasks
     /\ UNCHANGED <<appVars, db, loadVars>>

\* "await dbOperations.delete(STORES.TRASH, uuid)" of emptyTrash's loop
TaskDeleteTrash ==
  \E t \in BagToSet(tasks) :
    /\ t.pc = "deleteTrash"
    /\ LET uuid == CHOOSE u \in t.uuids : \A v \in t.uuids : u <= v
       IN /\ db' = [db EXCEPT !["trash"] = @ \ {uuid}]
          /\ tasks' = IF t.uuids = {uuid} THEN Finish(t)
                      ELSE Resume(t, [t EXCEPT !.uuids = @ \ {uuid}])
    /\ UNCHANGED <<appVars, filesVars, loadVars>>

\* Saving, trashing and emptying the trash.
NextTrash ==
  \/ SaveFile
  \/ MoveToTrash
  \/ EmptyTrashFacade
  \/ TaskGet
  \/ TaskPut
  \/ TaskDelete
  \/ TaskDeleteTrash

NextFacade ==
  \/ SaveFile
  \/ MoveToTrash
  \/ RestoreFromTrash
  \/ MoveFile
  \/ RenameFile
  \/ TaskGet
  \/ TaskPut
  \/ TaskDelete

\* ========================================================================
\* Library seeding (useFilesStore.initializeLibrary)
\* ========================================================================
\* initializeLibrary tests libraryState at its call and then awaits
\* loadDefaultFiles and loadDefaultApplets before it writes; the rest of a
\* call is a task, as for the facade calls.

\* The default manifest as initializeLibrary writes it: the directories, and
\* one file with an assetPath, under a uuid generated at the write.
SeededItems(uuid) ==
  PutItem(DefaultItems, <<"Documents", "asset">>,
          NewItem(<<"Documents", "asset">>, "asset", FALSE, uuid,
                  "undefined"))

\* The apps ensureDefaultDesktopShortcuts makes shortcuts of: the registry
\* without finder (and control-panels); an app's name is its id here.
ShortcutApps == AppIds \ {"finder"}

\* finalAliasPath of a shortcut: `/Desktop/${appName}`, then
\* `/Desktop/${appName} ${counter}` while an active item holds the path.
ShortcutPath(its, appName) ==
  LET At(c) == <<"Desktop",
                 IF c = 0 THEN appName ELSE appName \o " " \o ToString(c)>>
      Active(c) == At(c) \in DOMAIN its /\ its[At(c)].status = "active"
  IN At(CHOOSE c \in 0..Cardinality(DOMAIN its) :
          ~Active(c) /\ \A d \in 0..(c - 1) : Active(d))

\* The batch update of ensureDefaultDesktopShortcuts, one shortcut after the
\* other.
RECURSIVE AddShortcuts(_, _)
AddShortcuts(its, apps) ==
  IF apps = {} THEN its
  ELSE LET appId == CHOOSE a \in apps : TRUE
           finalAliasPath == ShortcutPath(its, appId)
           aliasItem ==
             [NewItem(finalAliasPath, LastSegment(finalAliasPath), FALSE,
                      NoUuid, "undefined")
                EXCEPT !.aliasType = "app", !.aliasTarget = <<appId>>]
       IN AddShortcuts(PutItem(its, finalAliasPath, aliasItem),
                       apps \ {appId})

\* ensureDefaultDesktopShortcuts()
ensureDefaultDesktopShortcuts(s) ==
  IF DesktopPath \notin DOMAIN s.items \/ ~s.items[DesktopPath].isDirectory
  THEN s
  ELSE LET desktopItems ==
             {k \in DOMAIN s.items :
                /\ s.items[k].status = "active"
                /\ getParentPath(s.items[k].path) = DesktopPath}
           trashedItems ==
             {k \in DOMAIN s.items : s.items[k].status = "trashed"}
           IsShortcut(k, appId) ==
             /\ s.items[k].aliasType = "app"
             /\ s.items[k].aliasTarget = <<appId>>
           shortcutsToCreate ==
             {appId \in ShortcutApps :
                /\ ~\E k \in desktopItems : IsShortcut(k, appId)
                /\ ~\E k \in trashedItems :
                      /\ IsShortcut(k, appId)
                      /\ s.items[k].originalPath # NoPath
                      /\ IsUnder(s.items[k].originalPath, DesktopPath)}
       IN [s EXCEPT !.items = AddShortcuts(s.items, shortcutsToCreate)]

\* initializeLibrary(), up to its first await
InitializeLibrary ==
  /\ BagCardinality(tasks) < MaxTasks
  /\ tasks' = IF libraryState = "uninitialized"
                THEN Suspend(Task("initializeLibrary", "loadDefaultFiles",
                                  NoUuid, "null", "null", NoPath, NoPath))
                ELSE tasks
  /\ UNCHANGED <<appVars, filesVars, db, loadVars>>

\* await loadDefaultFiles()
LibraryLoadFiles ==
  \E t \in BagToSet(tasks) :
    /\ t.op = "initializeLibrary" /\ t.pc = "loadDefaultFiles"
    /\ tasks' = Resume(t, [t EXCEPT !.pc = "loadDefaultApplets"])
    /\ UNCHANGED <<appVars, filesVars, db, loadVars>>

\* await loadDefaultApplets(), then set({items: newItems, libraryState:
\* "loaded"}) and saveDefaultContents up to its await: the asset file is
\* registered for lazy loading.
LibrarySeed ==
  \E t \in BagToSet(tasks) :
    /\ t.op = "initializeLibrary" /\ t.pc = "loadDefaultApplets"
    /\ items' = SeededItems(FreshUuid(items))
    /\ libraryState' = "loaded"
    /\ pendingLazyLoadFiles' =
         pendingLazyLoadFiles \cup {<<"Documents", "asset">>}
    /\ tasks' = Resume(t, [t EXCEPT !.pc = "saveDefaultContents"])
    /\ UNCHANGED <<appVars, db, loadPc, loadResult, loadingAssets>>

\* await saveDefaultContents(...) twice, then
\* await get().ensureDefaultDesktopShortcuts()
LibraryShortcuts ==
  \E t \in BagToSet(tasks) :
    /\ t.op = "initializeLibrary" /\ t.pc = "saveDefaultContents"
    /\ SetFiles(ensureDefaultDesktopShortcuts(FilesState))
    /\ tasks' = Finish(t)
    /\ UNCHANGED <<appVars, db, loadVars>>

\* clearLibrary()
ClearLibrary ==
  /\ items' = <<>>
  /\ libraryState' = "cleared"
  /\ UNCHANGED <<appVars, contentVars, loadVars>>

\* The metadata mutations, on a loaded and on a cleared library.
NextStore ==
  \/ ClearLibrary
  \/ AddItem
  \/ RemoveItem
  \/ RestoreItem
  \/ RenameItem

\* reset()
reset(s) == [items |-> <<>>, libraryState |-> "uninitialized"]

\* formatFileSystem(), up to its first await
FormatFileSystem ==
  /\ BagCardinality(tasks) < MaxTasks
  /\ \A t \in BagToSet(tasks) : t.op # "formatFileSystem"
  /\ tasks' = Suspend(Task("formatFileSystem", "clearStores", NoUuid, "null",
                           "null", NoPath, NoPath))
  /\ UNCHANGED <<appVars, filesVars, db, loadVars>>

\* await Promise.all([clear(IMAGES), clear(TRASH), clear(CUSTOM_WALLPAPERS)])
FormatClearStores ==
  \E t \in BagToSet(tasks) :
    /\ t.op = "formatFileSystem" /\ t.pc = "clearStores"
    /\ db' = [storeName \in Stores |->
               IF storeName \in {"images", "trash", "custom_wallpapers"}
                 THEN {} ELSE db[storeName]]
    /\ tasks' = Resume(t, [t EXCEPT !.pc = "clearDocuments"])
    /\ UNCHANGED <<appVars, filesVars, loadVars>>

\* await dbOperations.clear(STORES.DOCUMENTS), then fileStore.reset() and
\* the reset of the hook's navigation state
FormatReset ==
  \E t \in BagToSet(tasks) :
    /\ t.op = "formatFileSystem" /\ t.pc = "clearDocuments"
    /\ db' = [db EXCEPT !["documents"] = {}]
    /\ SetFiles(reset(FilesState))
    /\ tasks' = Finish(t)
    /\ UNCHANGED <<appVars, loadVars>>

\* saveFile of the seeded document
SaveSeededFile == SaveFileAt(<<"Documents", "asset">>)

\* One session of a new user: the library is seeded, files are saved and
\* the file system is formatted.
NextFormat ==
  \/ LibraryLoadFiles
  \/ LibrarySeed
  \/ LibraryShortcuts
  \/ SaveSeededFile
  \/ TaskPut
  \/ AddTopLevelItem
  \/ FormatFileSystem
  \/ FormatClearStores
  \/ FormatReset

NextLibrary ==
  \/ InitializeLibrary
  \/ LibraryLoadFiles
  \/ LibrarySeed
  \/ LibraryShortcuts
  \/ AddItem
  \/ ClearLibrary

\* ========================================================================
\* Lazy content loader (ensureFileContentLoaded)
\* ========================================================================
\* The callers all ask for the same asset: one path, one uuid.

Callers == 1..NumCallers
AssetPath == <<"Documents", "asset">>
AssetUuid == 1
AssetStore == StoreOfSavedPath(AssetPath)

\* The call returns value.
Return(c, value) ==
  /\ loadPc' = [loadPc EXCEPT ![c] = "returned"]
  /\ loadResult' = [loadResult EXCEPT ![c] =
                      IF value THEN "true" ELSE "false"]

\* The call goes on to its next await.
Await(c, pc) ==
  /\ loadPc' = [loadPc EXCEPT ![c] = pc]
  /\ UNCHANGED loadResult

\* ensureFileContentLoaded(filePath, uuid), up to its first await
LoadEnter(c) ==
  IF AssetStore = "null" THEN Return(c, FALSE)
  ELSE IF AssetUuid \in loadingAssets THEN Await(c, "checkComplete")
  ELSE Await(c, "open")

LoadCall ==
  \E c \in Callers :
    /\ loadPc[c] = "idle"
    /\ LoadEnter(c)
    /\ UNCHANGED <<appVars, filesVars, contentVars, loadingAssets,
                   pendingLazyLoadFiles>>

\* checkComplete, run every 50 ms until the uuid left loadingAssets
LoadCheckComplete ==
  \E c \in Callers :
    /\ loadPc[c] = "checkComplete"
    /\ IF AssetUuid \notin loadingAssets
         THEN Await(c, "verifyOpen")
         ELSE UNCHANGED <<loadPc, loadResult>>
    /\ UNCHANGED <<appVars, filesVars, contentVars, loadingAssets,
                   pendingLazyLoadFiles>>

\* the waiter's "await ensureIndexedDBInitialized()", which may reject
LoadVerifyOpen ==
  \E c \in Callers, opened \in BOOLEAN :
    /\ loadPc[c] = "verifyOpen"
    /\ IF opened THEN Await(c, "verifyRead") ELSE Return(c, FALSE)
    /\ UNCHANGED <<appVars, filesVars, contentVars, loadingAssets,
                   pendingLazyLoadFiles>>

\* A waiter that takes the end of the wait for success: it returns true
\* without reading the store.
LoadVerifyRead_Trusting ==
  \E c \in Callers :
    /\ loadPc[c] = "verifyRead"
    /\ Return(c, TRUE)
    /\ UNCHANGED <<appVars, filesVars, contentVars, loadingAssets,
                   pendingLazyLoadFiles>>

\* the waiter's read: return exists
LoadVerifyRead ==
  \E c \in Callers :
    /\ loadPc[c] = "verifyRead"
    /\ Return(c, AssetUuid \in db[AssetStore])
    /\ UNCHANGED <<appVars, filesVars, contentVars, loadingAssets,
                   pendingLazyLoadFiles>>

\* "db = await ensureIndexedDBInitialized()", which may reject: the outer
\* catch deletes the uuid from loadingAssets
LoadOpen ==
  \E c \in Callers, opened \in BOOLEAN :
    /\ loadPc[c] = "open"
    /\ IF opened
         THEN Await(c, "read") /\ UNCHANGED loadingAssets
         ELSE Return(c, FALSE) /\ loadingAssets' = loadingAssets \ {AssetUuid}
    /\ UNCHANGED <<appVars, filesVars, contentVars, pendingLazyLoadFiles>>

\* the read of the stored content and the code up to "await fetch(...)"
LoadRead ==
  \E c \in Callers :
    /\ loadPc[c] = "read"
    /\ IF AssetUuid \in db[AssetStore]
         THEN Return(c, TRUE) /\ UNCHANGED loadingAssets
         ELSE IF AssetPath \notin pendingLazyLoadFiles
         THEN Return(c, FALSE) /\ UNCHANGED loadingAssets
         ELSE Await(c, "fetch") /\ loadingAssets' = loadingAssets \cup {AssetUuid}
    /\ UNCHANGED <<appVars, filesVars, contentVars, pendingLazyLoadFiles>>

\* "resp = await fetch(assetPath)": ok, not ok, or rejected
LoadFetch ==
  \E c \in Callers, ok \in BOOLEAN :
    /\ loadPc[c] = "fetch"
    /\ IF ok
         THEN Await(c, "blob") /\ UNCHANGED loadingAssets
         ELSE Return(c, FALSE) /\ loadingAssets' = loadingAssets \ {AssetUuid}
    /\ UNCHANGED <<appVars, filesVars, contentVars, pendingLazyLoadFiles>>

\* "content = await resp.blob()", which may reject
LoadBlob ==
  \E c \in Callers, ok \in BOOLEAN :
    /\ loadPc[c] = "blob"
    /\ IF ok
         THEN Await(c, "put") /\ UNCHANGED loadingAssets
         ELSE Return(c, FALSE) /\ loadingAssets' = loadingAssets \ {AssetUuid}
    /\ UNCHANGED <<appVars, filesVars, contentVars, pendingLazyLoadFiles>>

\* the awaited store.put and the code after it
LoadPut ==
  \E c \in Callers, ok \in BOOLEAN :
    /\ loadPc[c] = "put"
    /\ loadingAssets' = loadingAssets \ {AssetUuid}
    /\ IF ok
         THEN /\ db' = [db EXCEPT ![AssetStore] = @ \cup {AssetUuid}]
              /\ pendingLazyLoadFiles' = pendingLazyLoadFiles \ {AssetPath}
              /\ Return(c, TRUE)
         ELSE /\ UNCHANGED <<db, pendingLazyLoadFiles>>
              /\ Return(c, FALSE)
    /\ UNCHANGED <<appVars, filesVars, tasks>>

\* The caller asks again.
LoadAgain ==
  \E c \in Callers :
    /\ loadPc[c] = "returned"
    /\ loadPc' = [loadPc EXCEPT ![c] = "idle"]
    /\ loadResult' = [loadResult EXCEPT ![c] = "none"]
    /\ UNCHANGED <<appVars, filesVars, contentVars, loadingAssets,
                   pendingLazyLoadFiles>>

\* Caller c's call goes on: an awaited promise of it settles, or its 50 ms
\* timer fires and finds the uuid gone from loadingAssets.
LoadProgress(c) ==
  /\ \/ LoadCheckComplete
     \/ LoadVerifyOpen
     \/ LoadVerifyRead
     \/ LoadOpen
     \/ LoadRead
     \/ LoadFetch
     \/ LoadBlob
     \/ LoadPut
  /\ loadPc'[c] # loadPc[c]

\* Every awaited promise settles, and a timer that fires every 50 ms sees
\* the set without the uuid if it is without it again and again.  That a
\* caller calls (again) is not forced.
FairLoad == \A c \in Callers : SF_vars(LoadProgress(c))

\* ---- handleFileOpen of a /Documents file --------------------------------

\* A handleFileOpen call of the seeded document that is suspended at an
\* await: caller is its ensureFileContentLoaded call, loads the calls of
\* ensureDefaultContent it made, reads its reads of the store after them.
OpenTask(pc, c, loads, reads) ==
  [op |-> "handleFileOpen", pc |-> pc, caller |-> c, loads |-> loads,
   reads |-> reads]

OpenTasks == {t \in BagToSet(tasks) : t.op = "handleFileOpen"}

\* "if (hasDefaultContent)": the read after the load, or on to the launch;
\* and a handler that starts over when the load failed.
AfterLoad_Again(hasDefaultContent) ==
  IF hasDefaultContent THEN "openRetry" ELSE "openGet"
AfterLoad(hasDefaultContent) ==
  IF hasDefaultContent THEN "openRetry" ELSE "launch"

\* "3. Launch Appropriate App" for a /Documents path: the TextEdit instance
\* that has the file open (textEditStore.getInstanceIdByPath: any open
\* textedit instance, or none) is brought to the foreground, else
\* launchApp("textedit", {initialData}).
Launched(t) ==
  \E existingInstanceId \in OpenOfApp(AppState, "textedit") \cup {Null} :
    LET s == IF existingInstanceId # Null
               THEN bringInstanceToForeground(AppState, existingInstanceId)
               ELSE useLaunchApp(AppState, "textedit")[1]
    IN /\ s.nextInstanceId <= MaxInstances
       /\ SetApp(s)
       /\ tasks' = Finish(t)

\* handleFileOpen(file) for the seeded document, up to
\* "await dbOperations.get(storeName, fileMetadata.uuid)"
OpenFile ==
  \E c \in Callers :
    /\ loadPc[c] = "idle"
    /\ \A t \in OpenTasks : t.caller # c
    /\ AssetPath \in DOMAIN items /\ items[AssetPath].uuid # NoUuid
    /\ tasks' = Suspend(OpenTask("openGet", c, 0, 0))
    /\ UNCHANGED <<appVars, filesVars, db, loadVars>>

\* The first read settles: the content is there, or ensureDefaultContent is
\* called.
OpenGet ==
  \E t \in OpenTasks :
    /\ t.pc = "openGet"
    /\ IF items[AssetPath].uuid \in db[AssetStore]
         THEN /\ tasks' = Resume(t, [t EXCEPT !.pc = "openText"])
              /\ UNCHANGED <<loadPc, loadResult>>
         ELSE /\ tasks' = Resume(t, [t EXCEPT !.pc = "openLoad",
                                              !.loads = @ + 1])
              /\ LoadEnter(t.caller)
    /\ UNCHANGED <<appVars, filesVars, db, loadingAssets,
                   pendingLazyLoadFiles>>

\* "await ensureDefaultContent(...)" settles.
OpenLoaded ==
  \E t \in OpenTasks :
    /\ t.pc = "openLoad"
    /\ loadPc[t.caller] = "returned"
    /\ loadPc' = [loadPc EXCEPT ![t.caller] = "idle"]
    /\ loadResult' = [loadResult EXCEPT ![t.caller] = "none"]
    /\ LET next == AfterLoad(loadResult[t.caller] = "true")
       IN IF next = "launch"
            THEN Launched(t)
            ELSE /\ tasks' = Resume(t, [t EXCEPT !.pc = next])
                 /\ UNCHANGED appVars
    /\ UNCHANGED <<filesVars, db, loadingAssets, pendingLazyLoadFiles>>

\* The read after the load settles.
OpenRetry ==
  \E t \in OpenTasks :
    /\ t.pc = "openRetry"
    /\ IF items[AssetPath].uuid \in db[AssetStore]
         THEN /\ tasks' = Resume(t, [t EXCEPT !.pc = "openText",
                                              !.reads = @ + 1])
              /\ UNCHANGED appVars
         ELSE Launched(t)
    /\ UNCHANGED <<filesVars, db, loadVars>>

\* "await contentToUse.text()" settles and the app is launched.
OpenText ==
  \E t \in OpenTasks :
    /\ t.pc = "openText"
    /\ Launched(t)
    /\ UNCHANGED <<filesVars, db, loadVars>>

\* The user opens the seeded document, from one or two windows.
NextOpen ==
  \/ OpenFile
  \/ OpenGet
  \/ OpenLoaded
  \/ OpenRetry
  \/ OpenText
  \/ LoadCheckComplete
  \/ LoadVerifyOpen
  \/ LoadVerifyRead
  \/ LoadOpen
  \/ LoadRead
  \/ LoadFetch
  \/ LoadBlob
  \/ LoadPut

\* Caller c's handleFileOpen goes on: an awaited promise of it settles.
OpenProgress(c) ==
  /\ OpenGet \/ OpenLoaded \/ OpenRetry \/ OpenText
  /\ \E t \in OpenTasks : t.caller = c /\ t \notin BagToSet(tasks')

FairOpen ==
  \A c \in Callers : WF_vars(OpenProgress(c)) /\ SF_vars(LoadProgress(c))

\* ---- handleFileOpen through a chain of aliases --------------------------

\* The aliases of the seeded document as createAlias names them:
\* /Desktop/asset, /Desktop/asset 1, ...
ChainPath(i) == <<"Desktop", Numbered("asset", i - 1)>>
MissingPath == <<"Documents", "gone">>
ChainLength == Cardinality({k \in DOMAIN items : IsAlias(items, k)})
ChainPaths == {ChainPath(i) : i \in 1..MaxChain}

\* What the first alias is made of: the document, a path that holds no
\* item, or the path the alias itself will get; every later alias is made
\* of the newest one.
ChainTargets ==
  IF ChainLength = 0 THEN {AssetPath, MissingPath, ChainPath(1)}
  ELSE {ChainPath(ChainLength)}

ChainAlias ==
  \E targetPath \in ChainTargets :
    /\ ChainLength < MaxChain
    /\ SetFiles(createAlias(FilesState, targetPath, "asset", "file",
                            "textedit"))
    /\ UNCHANGED <<appVars, contentVars, loadVars>>

\* handleFileOpen(file) of a Desktop alias or of the document: the alias
\* loop, then the open of the /Documents file it resolved to; every other
\* way out of the loop is a bare return.
OpenChained ==
  \E c \in Callers, path \in ChainPaths \cup {AssetPath} :
    LET r == ResolveAlias(items, path, {}, 0)
    IN /\ path \in DOMAIN items
       /\ loadPc[c] = "idle"
       /\ \A t \in OpenTasks : t.caller # c
       /\ IF r.outcome = "resolved" /\ r.path = AssetPath
             /\ items[AssetPath].uuid # NoUuid
            THEN tasks' = Suspend(OpenTask("openGet", c, 0, 0))
            ELSE UNCHANGED tasks
       /\ UNCHANGED <<appVars, filesVars, db, loadVars>>

NextChain ==
  \/ ChainAlias
  \/ OpenChained
  \/ OpenGet
  \/ OpenLoaded
  \/ OpenRetry
  \/ OpenText
  \/ LoadCheckComplete
  \/ LoadVerifyOpen
  \/ LoadVerifyRead
  \/ LoadOpen
  \/ LoadRead
  \/ LoadFetch
  \/ LoadBlob
  \/ LoadPut


NextLoad ==
  \/ LoadCall
  \/ LoadCheckComplete
  \/ LoadVerifyOpen
  \/ LoadVerifyRead
  \/ LoadOpen
  \/ LoadRead
  \/ LoadFetch
  \/ LoadBlob
  \/ LoadPut
  \/ LoadAgain

\* ========================================================================
\* Migration of persisted state (the persist middleware's migrate option)
\* ========================================================================
\* A persisted item keeps the fields the migrations read and write; an
\* absent field is "undefined" (NoUuid for the uuid).

STORE_VERSION == 10
CURRENT_APP_STORE_VERSION == 4

NothingPersisted == [store |-> "none"]

\* x || y on strings
OrElse(x, y) == IF x # "undefined" THEN x ELSE y

\* "if (version < 5)": status and uuid of every item, and /Trash
FilesStep5(state) ==
  LET uuidv4 == FreshUuid(state.items)
      newState ==
        [path \in DOMAIN state.items |->
           LET oldItem == state.items[path]
           IN [oldItem EXCEPT
                 !.status = OrElse(oldItem.status, "active"),
                 !.uuid = IF ~oldItem.isDirectory /\ oldItem.uuid = NoUuid
                            THEN uuidv4 ELSE oldItem.uuid]]
      trash == [isDirectory |-> TRUE, status |-> "active", uuid |-> NoUuid,
                createdAt |-> "undefined", modifiedAt |-> "undefined",
                deletedAt |-> "undefined", size |-> "undefined"]
      withTrash == IF TrashPath \in DOMAIN newState THEN newState
                   ELSE (TrashPath :> trash) @@ newState
  IN [items |-> withTrash,
      libraryState |->
        OrElse(state.libraryState,
               IF DOMAIN withTrash # {} THEN "loaded" ELSE "uninitialized")]

\* "if (version < 6)": timestamps
FilesStep6(state) ==
  [items |->
     [path \in DOMAIN state.items |->
        LET oldItem == state.items[path]
        IN [oldItem EXCEPT
              !.createdAt = OrElse(oldItem.createdAt,
                                   OrElse(oldItem.deletedAt, "now")),
              !.modifiedAt = OrElse(oldItem.modifiedAt,
                                    OrElse(oldItem.deletedAt, "now"))]],
   libraryState |-> OrElse(state.libraryState, "loaded")]

\* "if (version < 7)": size
FilesStep7(state) ==
  [items |->
     [path \in DOMAIN state.items |->
        LET oldItem == state.items[path]
        IN [oldItem EXCEPT !.size = OrElse(oldItem.size, "undefined")]],
   libraryState |-> OrElse(state.libraryState, "loaded")]

\* The files store's migrate(persistedState, version)
migrateFiles(persistedState, version) ==
  IF version < 5 THEN FilesStep5(persistedState)
  ELSE IF version < 6 THEN FilesStep6(persistedState)
  ELSE IF version < 7 THEN FilesStep7(persistedState)
  ELSE persistedState

\* The app store's steps: "if (version < 4)", "if (version < 2)",
\* "if (version < 3)"
AppStep4(prev) ==
  [prev EXCEPT !.currentWallpaper = "/wallpapers/pantheon.jpg",
               !.wallpaperSource = "/wallpapers/pantheon.jpg"]
AppStep2(prev) == [prev EXCEPT !.ttsModel = "null", !.ttsVoice = "null"]
NoOrder == <<"(undefined)">>
AppStep3(prev) ==
  LET legacyStack == prev.instanceStackOrder
      legacyWindow == prev.instanceWindowOrder
      chosen == IF legacyStack # NoOrder /\ Len(legacyStack) # 0
                  THEN legacyStack
                  ELSE IF legacyWindow # NoOrder THEN legacyWindow ELSE <<>>
      IsInstance(id) == id \in prev.instances
  IN [prev EXCEPT !.instanceOrder = SelectSeq(chosen, IsInstance),
                  !.instanceStackOrder = NoOrder,
                  !.instanceWindowOrder = NoOrder]

\* The app store's migrate(persisted, version)
migrateApp(persisted0, version) ==
  LET s4 == IF version < 4 THEN AppStep4(persisted0) ELSE persisted0
      s2 == IF version < 2 THEN AppStep2(s4) ELSE s4
      s3 == IF version < 3 THEN AppStep3(s2) ELSE s2
  IN [s3 EXCEPT !.version = CURRENT_APP_STORE_VERSION]

\* The states found in storage: one item of any shape, with or without
\* /Trash, written by any older version.
PersistedItems ==
  [isDirectory : BOOLEAN, status : {"undefined", "active", "trashed"},
   uuid : {NoUuid, AssetUuid}, createdAt : {"undefined", "then"},
   modifiedAt : {"undefined", "then"}, deletedAt : {"undefined", "then"},
   size : {"undefined", "set"}]

PersistedFiles ==
  {[store |-> "files", version |-> v,
    state |-> [items |-> its, libraryState |-> l]] :
     v \in 0..(STORE_VERSION - 1),
     its \in {(<<"a">> :> i) : i \in PersistedItems}
             \cup {(<<"a">> :> i) @@ (TrashPath :> i) : i \in PersistedItems},
     l \in {"undefined", "loaded"}}

PersistedOrders == {NoOrder, <<>>, <<"1">>, <<"2", "1">>}

PersistedApp ==
  {[store |-> "app", version |-> v,
    state |-> [currentWallpaper |-> w, wallpaperSource |-> w,
               ttsModel |-> t, ttsVoice |-> t,
               instanceStackOrder |-> so, instanceWindowOrder |-> wo,
               instanceOrder |-> io, instances |-> ids, version |-> v]] :
     v \in 0..(CURRENT_APP_STORE_VERSION - 1),
     w \in {"/wallpapers/old.jpg", "/wallpapers/pantheon.jpg"},
     t \in {"null", "set"},
     so \in PersistedOrders, wo \in PersistedOrders,
     io \in {NoOrder, <<"1">>},
     ids \in {{}, {"1"}}}

\* The page is loaded: the middleware finds a state of an older version and
\* replaces it by what migrate returns, under the current version.
MigrateFiles ==
  /\ storage.store = "files"
  /\ storage.version # STORE_VERSION
  /\ storage' = [storage EXCEPT
                     !.state = migrateFiles(storage.state,
                                            storage.version),
                     !.version = STORE_VERSION]
  /\ UNCHANGED <<instanceVars, navVars, filesVars, contentVars, loadVars>>

MigrateApp ==
  /\ storage.store = "app"
  /\ storage.version # CURRENT_APP_STORE_VERSION
  /\ storage' = [storage EXCEPT
                     !.state = migrateApp(storage.state,
                                          storage.version),
                     !.version = CURRENT_APP_STORE_VERSION]
  /\ UNCHANGED <<instanceVars, navVars, filesVars, contentVars, loadVars>>

NextMigrate ==
  \/ MigrateFiles
  \/ MigrateApp

\* ========================================================================
\* Initial states and specifications
\* ========================================================================

InitInstances ==
  /\ instances = <<>>
  /\ instanceOrder = <<>>
  /\ foregroundInstanceId = Null
  /\ nextInstanceId = 0
  /\ finderInstances = <<>>
  /\ hookMode = "unmounted"
  /\ localCurrentPath = Slash
  /\ localHistory = <<Slash>>
  /\ localHistoryIndex = 0

InitApp == InitInstances /\ storage = NothingPersisted

InitFiles ==
  /\ items = DefaultItems
  /\ libraryState = "loaded"

\* Empty object stores, no facade call in progress.
InitContent ==
  /\ db = [storeName \in Stores |-> {}]
  /\ tasks = EmptyBag

\* No call in progress; the asset is registered for lazy loading.
InitLoad ==
  /\ loadPc = [c \in Callers |-> "idle"]
  /\ loadResult = [c \in Callers |-> "none"]
  /\ loadingAssets = {}
  /\ pendingLazyLoadFiles = {AssetPath}

Init == InitApp /\ InitFiles /\ InitContent /\ InitLoad

SpecApp == Init /\ [][NextApp]_vars

SpecFiles == Init /\ [][NextFiles]_vars

\* The store as it is constructed: no items, nothing registered.
InitLibrary ==
  /\ InitApp
  /\ items = <<>>
  /\ libraryState = "uninitialized"
  /\ InitContent
  /\ loadPc = [c \in Callers |-> "idle"]
  /\ loadResult = [c \in Callers |-> "none"]
  /\ loadingAssets = {}
  /\ pendingLazyLoadFiles = {}

SpecLibrary == InitLibrary /\ [][NextLibrary]_vars

\* The store of a new user after hydration: onRehydrateStorage found
\* libraryState "uninitialized" and called initializeLibrary.
InitFormat ==
  /\ InitApp
  /\ items = <<>>
  /\ libraryState = "uninitialized"
  /\ db = [storeName \in Stores |-> {}]
  /\ tasks = SetToBag({Task("initializeLibrary", "loadDefaultFiles", NoUuid,
                            "null", "null", NoPath, NoPath)})
  /\ loadPc = [c \in Callers |-> "idle"]
  /\ loadResult = [c \in Callers |-> "none"]
  /\ loadingAssets = {}
  /\ pendingLazyLoadFiles = {}

\* Every awaited promise settles: a suspended call is resumed.  What the
\* user does (saving, adding, formatting) need not happen.
FairFormat ==
  /\ WF_vars(LibraryLoadFiles)
  /\ WF_vars(LibrarySeed)
  /\ WF_vars(LibraryShortcuts)
  /\ WF_vars(TaskPut)
  /\ WF_vars(FormatClearStores)
  /\ WF_vars(FormatReset)

SpecFormat == InitFormat /\ [][NextFormat]_vars /\ FairFormat
SpecNested == Init /\ [][NextNested]_vars
SpecPersist == Init /\ [][NextPersist]_vars
SpecStore == Init /\ [][NextStore]_vars
SpecLaunch == Init /\ [][NextLaunch]_vars
SpecAlias == Init /\ [][NextAlias]_vars

SpecFacade == Init /\ [][NextFacade]_vars

SpecTrash == Init /\ [][NextTrash]_vars

SpecLoad == Init /\ [][NextLoad]_vars
SpecLoadFair == Init /\ [][NextLoad]_vars /\ FairLoad

\* The seeded library; the document's content is not stored, and it is or
\* is not registered for lazy loading.
InitOpen ==
  /\ InitApp
  /\ items = SeededItems(AssetUuid)
  /\ libraryState = "loaded"
  /\ InitContent
  /\ loadPc = [c \in Callers |-> "idle"]
  /\ loadResult = [c \in Callers |-> "none"]
  /\ loadingAssets = {}
  /\ pendingLazyLoadFiles \in {{AssetPath}, {}}

SpecOpen == InitOpen /\ [][NextOpen]_vars /\ FairOpen

SpecChain == InitOpen /\ [][NextChain]_vars

SpecNav == Init /\ [][NextNav]_vars

InitMigrate ==
  /\ InitInstances
  /\ InitFiles
  /\ InitContent
  /\ InitLoad
  /\ storage \in PersistedFiles \cup PersistedApp

SpecMigrate == InitMigrate /\ [][NextMigrate]_vars

\* ========================================================================
\* Claims
\* ========================================================================

\* ---- claims about the instance manager --------------------------------

\* C1: in every reachable state at most one entry of instances has
\* isForeground = true.
C1_AtMostOneForeground ==
  Cardinality({id \in DOMAIN instances : instances[id].isForeground}) <= 1

\* C2: every instance with isForeground = true, and the instance named by
\* foregroundInstanceId when it is not null, is open and not minimized.
C2_ForegroundOpenNotMinimized ==
  /\ \A id \in DOMAIN instances :
       instances[id].isForeground =>
         instances[id].isOpen /\ ~instances[id].isMinimized
  /\ foregroundInstanceId # Null =>
       /\ foregroundInstanceId \in DOMAIN instances
       /\ instances[foregroundInstanceId].isOpen
       /\ ~instances[foregroundInstanceId].isMinimized

\* C3: instanceOrder holds exactly the ids of the instances with
\* isOpen = true, each exactly once.
C3_InstanceOrderExact ==
  /\ {instanceOrder[i] : i \in 1..Len(instanceOrder)}
       = {id \in DOMAIN instances : instances[id].isOpen}
  /\ \A i, j \in 1..Len(instanceOrder) :
       instanceOrder[i] = instanceOrder[j] => i = j

\* ---- the calls the claims on the metadata store range over ------------

ActivePaths(its) == {k \in DOMAIN its : its[k].status = "active"}

\* The (oldPath, newPath) pairs whose results stay within MaxDepth.
PathPairs ==
  {pr \in InputPaths \X InputPaths :
     pr[1] \in DOMAIN items => FitsDepth(pr[1], pr[2])}

Renamed(pr) ==
  renameItem(FilesState, pr[1], pr[2], LastSegment(pr[2])).items

Moved(pr) == moveItem(FilesState, pr[1], pr[2])[1].items

\* The keys a rename or move of old takes with it.
Carried(its, old) ==
  {old} \cup (IF its[old].isDirectory THEN MovedKeys(its, old) ELSE {})

\* The key an item stored at k has after old became new.
KeyAfter(its, old, new, k) ==
  IF k \in Carried(its, old) THEN Rebase(k, old, new) ELSE k

\* The keys of other items that the carried items are written over.
Overwritten(its, old, new) ==
  ({Rebase(k, old, new) : k \in Carried(its, old)} \cap DOMAIN its)
    \ Carried(its, old)

IsFile(its, k) == ~its[k].isDirectory /\ its[k].uuid # NoUuid

\* Every file of `before` that `after` still holds (at the key KeyOf gives)
\* has its uuid.
UuidsKept(before, after, old, new) ==
  \A k \in DOMAIN before \ Overwritten(before, old, new) :
    IsFile(before, k) =>
      /\ KeyAfter(before, old, new, k) \in DOMAIN after
      /\ after[KeyAfter(before, old, new, k)].uuid = before[k].uuid

UuidsKeptInPlace(before, after) ==
  \A k \in DOMAIN before :
    IsFile(before, k) => k \in DOMAIN after /\ after[k].uuid = before[k].uuid

\* C5: a file's uuid is the same after renameItem, moveItem, a soft
\* removeItem, restoreItem and an addItem that overwrites its path, also
\* when the file is a descendant of the directory the call is made on.
C5_UuidStable ==
  /\ \A path \in InputPaths, isDirectory \in BOOLEAN,
        uuid \in {NoUuid, FreshUuid(items)} :
       UuidsKeptInPlace(items,
         addItem(FilesState,
                 [ItemData(path, isDirectory) EXCEPT !.uuid = uuid],
                 FreshUuid(items)).items)
  /\ \A path \in InputPaths :
       (path \in ActivePaths(items)) =>
         UuidsKeptInPlace(items, removeItem(FilesState, path, FALSE).items)
  /\ \A path \in InputPaths :
       UuidsKeptInPlace(items, restoreItem(FilesState, path).items)
  /\ \A pr \in PathPairs :
       Renamed(pr) # items => UuidsKept(items, Renamed(pr), pr[1], pr[2])
  /\ \A pr \in PathPairs :
       moveItem(FilesState, pr[1], pr[2])[2]
         => UuidsKept(items, Moved(pr), pr[1], pr[2])

\* A file with a uuid lies trashed inside a trashed directory: removeItem has
\* acted on a file and on the directory that holds it.
C5_Witness ==
  \E k \in DOMAIN items :
    /\ IsFile(items, k) /\ Len(k) = 2
    /\ items[k].status = "trashed"
    /\ getParentPath(k) \in DOMAIN items
    /\ items[getParentPath(k)].status = "trashed"
    /\ items[getParentPath(k)].isDirectory

\* The descendants of D are stored under D2 with only path (and a trashed
\* descendant's originalPath) rewritten, and no key under D remains.
Followed(before, after, D, D2) ==
  /\ \A k \in DOMAIN before :
       IsUnder(k, D) =>
         LET j == Rebase(k, D, D2)
         IN /\ j \in DOMAIN after
            /\ [after[j] EXCEPT !.originalPath = NoPath]
                 = [before[k] EXCEPT !.path = j, !.originalPath = NoPath]
            /\ before[k].status = "trashed" => after[j].originalPath = j
  /\ \A j \in DOMAIN after : ~IsUnder(j, D)

\* C7: descendants follow their directory through renameItem, moveItem, a
\* soft removeItem and restoreItem.
C7_DescendantsFollow ==
  /\ \A pr \in PathPairs :
       (pr[1] \in DOMAIN items /\ items[pr[1]].isDirectory
        /\ Renamed(pr) # items)
         => Followed(items, Renamed(pr), pr[1], pr[2])
  /\ \A pr \in PathPairs :
       (moveItem(FilesState, pr[1], pr[2])[2] /\ items[pr[1]].isDirectory)
         => Followed(items, Moved(pr), pr[1], pr[2])
  /\ \A D \in InputPaths :
       (D \in ActivePaths(items) /\ items[D].isDirectory) =>
         \A k \in ActivePaths(items) :
           IsUnder(k, D) =>
             removeItem(FilesState, D, FALSE).items[k].status = "trashed"
  /\ \A D \in InputPaths :
       (D \in DOMAIN items /\ items[D].status = "trashed"
        /\ items[D].isDirectory) =>
         \A k \in DOMAIN items :
           IsUnder(k, D) =>
             restoreItem(FilesState, D).items[k].status = "active"

\* Equal maps but for the trash fields' timestamps and the icons.
SameButTimestampsAndIcon(a, b) ==
  /\ DOMAIN a = DOMAIN b
  /\ \A k \in DOMAIN a :
       [a[k] EXCEPT !.icon = "", !.deletedAt = FALSE, !.originalPath = NoPath]
         = [b[k] EXCEPT !.icon = "", !.deletedAt = FALSE,
                        !.originalPath = NoPath]

\* C8: trashing an active item and restoring it gives back the items map:
\* the item and each descendant have the status, path and uuid of before.
C8_TrashRoundTrip ==
  \A p \in InputPaths :
    p \in ActivePaths(items) =>
      SameButTimestampsAndIcon(items,
        restoreItem(removeItem(FilesState, p, FALSE), p).items)

\* C9: every active item other than root has its parent path in the map as
\* an active directory.
C9_DirectoryContainment ==
  \A k \in ActivePaths(items) :
    k # Root =>
      /\ getParentPath(k) \in DOMAIN items
      /\ items[getParentPath(k)].isDirectory
      /\ items[getParentPath(k)].status = "active"

\* C10: every entry's path field is its key, and no addItem, renameItem or
\* moveItem call that succeeds leaves fewer active items than it found.
C10_PathUniqueness ==
  /\ \A k \in DOMAIN items : items[k].path = k
  /\ \A path \in InputPaths, isDirectory \in BOOLEAN :
       ActivePaths(items) \subseteq
         ActivePaths(addItem(FilesState, ItemData(path, isDirectory),
                             FreshUuid(items)).items)
  /\ \A pr \in PathPairs :
       Cardinality(ActivePaths(Renamed(pr)))
         >= Cardinality(ActivePaths(items))
  /\ \A pr \in PathPairs :
       Cardinality(ActivePaths(Moved(pr)))
         >= Cardinality(ActivePaths(items))

\* C4: of the calls for one uuid that overlap in time, at most one has a
\* fetch of the asset under way.
C4_SingleFetch ==
  Cardinality({c \in Callers : loadPc[c] \in {"fetch", "blob", "put"}}) <= 1

\* C6: when no facade call is in progress, the object store selected by the
\* path of an active file under /Documents or /Images holds the file's uuid.
C6_ContentReachable ==
  tasks = EmptyBag =>
    \A k \in DOMAIN items :
      (items[k].status = "active" /\ ~items[k].isDirectory
       /\ items[k].uuid # NoUuid /\ StoreOfPath(k) # "null")
        => items[k].uuid \in db[StoreOfPath(k)]

\* C11: emptyTrash, and removeItem on a trashed path, delete no item whose
\* status is active.
C11_OnlyTrashedDeleted ==
  /\ ActivePaths(items) \subseteq DOMAIN emptyTrash(FilesState)[1].items
  /\ \A path \in InputPaths :
       (path \in DOMAIN items /\ items[path].status = "trashed") =>
         ActivePaths(items)
           \subseteq DOMAIN removeItem(FilesState, path, FALSE).items

\* C12: an item has originalPath and deletedAt set exactly when it is
\* trashed.
C12_TrashFieldsIffTrashed ==
  \A k \in DOMAIN items :
    IF items[k].status = "trashed"
      THEN items[k].originalPath # NoPath /\ items[k].deletedAt
      ELSE items[k].originalPath = NoPath /\ ~items[k].deletedAt

\* The alias chain from path can be followed for n more steps without
\* reaching an item that is not a file alias with an existing target.
RECURSIVE Endless(_, _, _)
Endless(its, path, n) ==
  IF ~(IsAlias(its, path) /\ its[path].aliasType # "app"
       /\ its[path].aliasTarget \in DOMAIN its)
  THEN FALSE
  ELSE IF n = 0 THEN TRUE
  ELSE Endless(its, its[its[path].aliasTarget].path, n - 1)

\* The alias chain that starts at path contains a cycle: it can be followed
\* for more steps than there are items.
Cyclic(its, path) == Endless(its, path, Cardinality(DOMAIN its))

\* C13: the alias loop of handleFileOpen ends within maxDepth iterations, and
\* within one more than the number of alias items; a chain that contains a
\* cycle ends in a bare return and leaves the instance manager as it was.
C13_AliasResolutionTerminates ==
  \A path \in OpenPaths :
    LET r == ResolveAlias(items, path, {}, 0)
        aliases == {k \in DOMAIN items : IsAlias(items, k)}
    IN /\ r.steps <= maxDepth
       /\ r.steps <= Cardinality(aliases) + 1
       /\ Cyclic(items, path) =>
            /\ r.outcome \in {"circular", "maxDepth"}
            /\ handleFileOpen(AppState, items, path) = AppState

\* Two aliases point at each other and opening one is rejected as circular
\* in the third iteration, after an app alias has launched an instance.
C13_Witness ==
  /\ nextInstanceId > 0
  /\ \E path \in OpenPaths :
       /\ Cyclic(items, path)
       /\ items[path].aliasTarget # path
       /\ ResolveAlias(items, path, {}, 0).outcome = "circular"
       /\ ResolveAlias(items, path, {}, 0).steps = 3

\* C14: the content of a stored file is never lost by the moves between
\* buckets: once saveFile's put is through, the file's uuid is in at least
\* one object store at every step of every call.
C14_ContentNeverLost ==
  \A k \in DOMAIN items :
    (/\ ~items[k].isDirectory
     /\ items[k].uuid # NoUuid
     /\ \A t \in BagToSet(tasks) :
          ~(t.op = "saveFile" /\ t.uuid = items[k].uuid))
      => \E storeName \in Stores : items[k].uuid \in db[storeName]

\* Some instance of appId is open and every open one is minimized.
AllMinimized(appId) ==
  /\ OpenOfApp(AppState, appId) # {}
  /\ \A id \in OpenOfApp(AppState, appId) : instances[id].isMinimized

\* The instance id of state s is restored and focused: not minimized, the
\* foreground instance, and the last element of instanceOrder.
RestoredAndFocused(s, id) ==
  /\ id \in DOMAIN s.instances
  /\ ~s.instances[id].isMinimized
  /\ s.instances[id].isForeground
  /\ s.foregroundInstanceId = id
  /\ Len(s.instanceOrder) > 0
  /\ s.instanceOrder[Len(s.instanceOrder)] = id

\* C15: launchApp(appId), with an instance of appId open and every open one
\* minimized, creates no instance, returns the id of an open instance of
\* appId, and leaves that instance not minimized, in the foreground and last
\* in instanceOrder; so does the launchApp of useLaunchApp.
C15_LaunchRestoresMinimized ==
  \A appId \in AppIds :
    AllMinimized(appId) =>
      /\ \A multiWindow \in BOOLEAN :
           LET r == launchApp(AppState, appId, multiWindow)
           IN /\ DOMAIN r[1].instances = DOMAIN instances
              /\ r[1].nextInstanceId = nextInstanceId
              /\ r[2] \in OpenOfApp(AppState, appId)
              /\ RestoredAndFocused(r[1], r[2])
      /\ LET h == useLaunchApp(AppState, appId)
         IN /\ DOMAIN h[1].instances = DOMAIN instances
            /\ h[1].nextInstanceId = nextInstanceId
            /\ h[2] \in OpenOfApp(AppState, appId)
            /\ RestoredAndFocused(h[1], h[2])

\* Two instances of one app are open, both minimized, while an instance of
\* another app is in the foreground.
C15_Witness ==
  \E appId \in AppIds :
    /\ AllMinimized(appId)
    /\ Cardinality(OpenOfApp(AppState, appId)) = 2
    /\ foregroundInstanceId # Null
    /\ foregroundInstanceId \notin OpenOfApp(AppState, appId)

\* C16: paint, a single-window app launched with multiWindow false, has at
\* most one open instance after any sequence of launchApp, minimize,
\* restore, focus and close; launchApp while one is open creates no
\* instance, returns the open one's id and makes it the foreground.
C16_SingleWindow ==
  LET open == OpenOfApp(AppState, "paint")
      r == launchApp(AppState, "paint", FALSE)
  IN /\ Cardinality(open) <= 1
     /\ open # {} =>
          /\ r[2] \in open
          /\ DOMAIN r[1].instances = DOMAIN instances
          /\ r[1].nextInstanceId = nextInstanceId
          /\ r[1].instances[r[2]].isForeground
          /\ r[1].foregroundInstanceId = r[2]

\* paint is open, loaded and behind another app's window, and every id the
\* bound allows has been issued: launchApp of paint focuses the open one.
C16_Witness ==
  /\ nextInstanceId = MaxInstances
  /\ \E id \in OpenOfApp(AppState, "paint") :
       /\ ~instances[id].isLoading
       /\ ~instances[id].isMinimized
       /\ foregroundInstanceId \notin {Null, id}

\* The state after launchApp("textedit", multiWindow = true) is called three
\* times in a row from state s, with the three returned ids.
ThreeLaunches(s) ==
  LET r1 == launchApp(s, "textedit", TRUE)
      r2 == launchApp(r1[1], "textedit", TRUE)
      r3 == launchApp(r2[1], "textedit", TRUE)
  IN [state |-> r3[1], ids |-> <<r1[2], r2[2], r3[2]>>]

\* No instance is open and no window is in the order.
NoOpenInstances ==
  /\ \A id \in DOMAIN instances : ~instances[id].isOpen
  /\ instanceOrder = <<>>

\* C17: from a state with no open instance, three consecutive launches of
\* textedit with multiWindow = true return three distinct ids, leave an
\* instanceOrder of length 3, and the last-launched instance is the
\* foreground: its isForeground is true and foregroundInstanceId is its id.
C17_ThreeLaunches ==
  NoOpenInstances =>
    LET r == ThreeLaunches(AppState)
    IN /\ Cardinality({r.ids[i] : i \in 1..3}) = 3
       /\ Len(r.state.instanceOrder) = 3
       /\ r.state.instances[r.ids[3]].isForeground
       /\ r.state.foregroundInstanceId = r.ids[3]

\* moveItem's four refusals, read off the items map.
MoveRefused(sourcePath, destinationPath) ==
  \/ sourcePath \notin DOMAIN items
  \/ items[sourcePath].status # "active"
  \/ getParentPath(destinationPath) \notin DOMAIN items
  \/ ~items[getParentPath(destinationPath)].isDirectory
  \/ destinationPath \in DOMAIN items
  \/ items[sourcePath].isDirectory /\ IsUnder(destinationPath, sourcePath)

C19_SeedOnce ==
  [][LibrarySeed => libraryState = "uninitialized"]_vars

\* C20: createAppInstance of an app other than finder creates an instance
\* that is open, loading and not in the foreground, appends its id to
\* instanceOrder and leaves foregroundInstanceId and the isForeground of every
\* other instance as they are; of finder, an instance that is open, not
\* loading and in the foreground, appended to instanceOrder, with
\* isForeground cleared on all others and foregroundInstanceId its id.
C20_CreateAppInstance ==
  \A appId \in AppIds :
    LET r == createAppInstance(AppState, appId)
        id == nextInstanceId + 1
    IN /\ DOMAIN r.instances = DOMAIN instances \cup {id}
       /\ r.instances[id].appId = appId
       /\ r.instances[id].isOpen
       /\ r.instanceOrder = Append(instanceOrder, id)
       /\ IF appId # "finder"
          THEN /\ r.instances[id].isLoading
               /\ ~r.instances[id].isForeground
               /\ r.foregroundInstanceId = foregroundInstanceId
               /\ \A other \in DOMAIN instances :
                    r.instances[other].isForeground
                      = instances[other].isForeground
          ELSE /\ ~r.instances[id].isLoading
               /\ r.instances[id].isForeground
               /\ r.foregroundInstanceId = id
               /\ \A other \in DOMAIN instances :
                    ~r.instances[other].isForeground

\* A created instance of a lazy app is still loading, last in instanceOrder
\* and not in the foreground, which another instance holds.
C20_Witness ==
  /\ Len(instanceOrder) >= 2
  /\ LET id == instanceOrder[Len(instanceOrder)]
     IN /\ id \in DOMAIN instances
        /\ instances[id].appId # "finder"
        /\ instances[id].isOpen
        /\ instances[id].isLoading
        /\ ~instances[id].isForeground
        /\ foregroundInstanceId \notin {Null, id}
        /\ foregroundInstanceId \in DOMAIN instances
        /\ instances[foregroundInstanceId].isForeground

\* C21: no instance is in the foreground while it is still loading: none has
\* isLoading and isForeground both true.
C21_NoLoadingForeground ==
  \A id \in DOMAIN instances :
    ~(instances[id].isLoading /\ instances[id].isForeground)

\* The foreground the claim names after closing id: the last id of the
\* remaining order that is an open instance of the closed one's app, else
\* the last that is an open instance of any app, else null.
ForegroundAfterClose(id) ==
  LET remaining == Without(instanceOrder, id)
      open == {j \in DOMAIN instances \ {id} : instances[j].isOpen}
      sameApp == LastWhere(remaining,
                   {j \in open : instances[j].appId = instances[id].appId})
  IN IF sameApp # Null THEN sameApp ELSE LastWhere(remaining, open)

\* C22: closeAppInstance(id) on an open instance removes id from instances
\* and from instanceOrder and makes foregroundInstanceId the most recent
\* open instance of the same app, else the most recent open instance of any
\* app, else null; on an id that is not an open instance it changes nothing.
C22_CloseAppInstance ==
  \A id \in InstanceIds :
    LET r == closeAppInstance(AppState, id)
    IN IF id \in DOMAIN instances /\ instances[id].isOpen
       THEN /\ id \notin DOMAIN r.instances
            /\ \A i \in 1..Len(r.instanceOrder) : r.instanceOrder[i] # id
            /\ r.foregroundInstanceId = ForegroundAfterClose(id)
       ELSE r = AppState

\* C23: minimizeInstance(id) on an instance that is not minimized leaves id
\* minimized and out of the foreground and instanceOrder as it was;
\* foregroundInstanceId is the last id of instanceOrder other than id that
\* is open and not minimized, or null, and exactly that instance has
\* isForeground true.
C23_MinimizeInstance ==
  \A id \in DOMAIN instances :
    ~instances[id].isMinimized =>
      LET r == minimizeInstance(AppState, id)
          next == LastWhere(instanceOrder,
                    {j \in DOMAIN instances \ {id} :
                       instances[j].isOpen /\ ~instances[j].isMinimized})
      IN /\ r.instances[id].isMinimized
         /\ ~r.instances[id].isForeground
         /\ r.instanceOrder = instanceOrder
         /\ r.foregroundInstanceId = next
         /\ \A j \in DOMAIN r.instances :
              r.instances[j].isForeground <=> j = next

\* C24: instance ids are never reused: createAppInstance returns
\* nextInstanceId + 1, an id that no instance holds, every id held was
\* issued before (it is at most nextInstanceId), and nextInstanceId never
\* decreases, across closes and reloads of the page.
C24_IdsNeverReused ==
  /\ [](/\ \A id \in DOMAIN instances : id <= nextInstanceId
        /\ \A appId \in AppIds :
             LET r == createAppInstance(AppState, appId)
             IN /\ r.nextInstanceId = nextInstanceId + 1
                /\ DOMAIN r.instances \ DOMAIN instances
                     = {nextInstanceId + 1})
  /\ [][nextInstanceId' >= nextInstanceId]_vars

\* Every id the bound allows was issued, the first ones are closed, and the
\* reload skipped an id: the counter is past the highest id in use.
C24_Witness ==
  /\ nextInstanceId = MaxInstances
  /\ DOMAIN instances # {}
  /\ 1 \notin DOMAIN instances
  /\ Max(DOMAIN instances) < nextInstanceId
  /\ \A id \in DOMAIN instances : instances[id].isOpen

\* C25: the two representations of focus agree: foregroundInstanceId = id
\* exactly when instances[id].isForeground, it is null exactly when no
\* instance has isForeground, and it never names an id absent from instances.
C25_FocusAgrees ==
  /\ \A id \in DOMAIN instances :
       foregroundInstanceId = id <=> instances[id].isForeground
  /\ foregroundInstanceId = Null <=>
       \A id \in DOMAIN instances : ~instances[id].isForeground
  /\ foregroundInstanceId # Null => foregroundInstanceId \in DOMAIN instances

\* C26: rejected metadata mutations are no-ops: addItem under a parent
\* (other than the root) that is missing, not a directory or trashed,
\* renameItem from a missing or not active oldPath or onto an existing
\* newPath, restoreItem of a missing or not trashed path and removeItem of a
\* missing path leave items and libraryState as they were.
C26_RejectedAreNoOps ==
  \A path \in InputPaths :
    /\ LET parent == getParentPath(path)
       IN (/\ parent # Root
           /\ \/ parent \notin DOMAIN items
              \/ ~items[parent].isDirectory
              \/ items[parent].status = "trashed")
          => \A isDirectory \in BOOLEAN :
               addItem(FilesState, ItemData(path, isDirectory),
                       FreshUuid(items)) = FilesState
    /\ \A newPath \in InputPaths :
         (\/ path \notin DOMAIN items
          \/ items[path].status # "active"
          \/ newPath \in DOMAIN items)
         => renameItem(FilesState, path, newPath, LastSegment(newPath))
              = FilesState
    /\ (path \notin DOMAIN items \/ items[path].status # "trashed")
         => restoreItem(FilesState, path) = FilesState
    /\ path \notin DOMAIN items
         => \A permanent \in BOOLEAN :
              removeItem(FilesState, path, permanent) = FilesState

\* A trashed directory /a (addItem below it and renameItem of it are
\* rejected), no /b (removeItem and restoreItem of it are rejected).
C26_Witness ==
  /\ <<"a">> \in DOMAIN items
  /\ items[<<"a">>].isDirectory
  /\ items[<<"a">>].status = "trashed"
  /\ <<"b">> \notin DOMAIN items

\* C27: emptyTrash returns exactly the uuids of the file items it removes
\* from the items map, and after the call no item has status trashed.
C27_EmptyTrashUuids ==
  LET r == emptyTrash(FilesState)
      removedFiles == {k \in DOMAIN items \ DOMAIN r[1].items :
                         ~items[k].isDirectory}
  IN /\ r[2] = {items[k].uuid : k \in removedFiles} \ {NoUuid}
     /\ \A k \in DOMAIN r[1].items : r[1].items[k].status # "trashed"

\* The paths a listing is asked for.
ListedPaths == {Root} \cup NestedPaths \cup DOMAIN items

\* C28: trashed items are visible only in the Trash view: in every state
\* getItemsInPath("/Trash") is exactly the trashed items and any other path
\* lists exactly its direct active children; after a soft removeItem of an
\* active directory D the Trash view contains D and every item that was an
\* active descendant of D, and no other path lists any of them.
C28_TrashView ==
  /\ getItemsInPath(FilesState, TrashPath)
       = {items[k] : k \in {t \in DOMAIN items : items[t].status = "trashed"}}
  /\ \A p \in ListedPaths \ {TrashPath} :
       getItemsInPath(FilesState, p)
         = {items[k] : k \in {c \in DOMAIN items \ {Root} :
                                /\ items[c].status = "active"
                                /\ getParentPath(c) = p}}
  /\ \A D \in NestedPaths :
       (D \in DOMAIN items /\ items[D].isDirectory
        /\ items[D].status = "active")
       => LET r == removeItem(FilesState, D, FALSE)
              gone == {D} \cup {k \in DOMAIN items :
                                  IsUnder(k, D) /\ items[k].status = "active"}
          IN \A k \in gone :
               /\ k \in DOMAIN r.items
               /\ r.items[k] \in getItemsInPath(r, TrashPath)
               /\ \A p \in ListedPaths \ {TrashPath} :
                    r.items[k] \notin getItemsInPath(r, p)

\* A trashed directory with a trashed item two levels below it: the Trash
\* view lists items of every depth.
C28_Witness ==
  \E D \in NestedPaths, k \in NestedPaths :
    /\ D \in DOMAIN items /\ k \in DOMAIN items
    /\ Len(k) = Len(D) + 2 /\ IsUnder(k, D)
    /\ items[D].isDirectory
    /\ items[D].status = "trashed" /\ items[k].status = "trashed"
    /\ items[k] \in getItemsInPath(FilesState, TrashPath)

ActiveKeys(its) == {k \in DOMAIN its : its[k].status = "active"}

\* Two successive createAlias calls with the same target and name leave the
\* active items they found as they were and add two distinct active aliases
\* of the target under /Desktop.
TwoAliases(targetPath, aliasType) ==
  LET r1 == createAlias(FilesState, targetPath, "a", aliasType, "textedit")
      r2 == createAlias(r1, targetPath, "a", aliasType, "textedit")
      new == (ActiveKeys(r1.items) \ ActiveKeys(items))
               \cup (ActiveKeys(r2.items) \ ActiveKeys(r1.items))
  IN /\ \A k \in ActiveKeys(items) :
          k \in DOMAIN r2.items /\ r2.items[k] = items[k]
     /\ Cardinality(new) = 2
     /\ ActiveKeys(r2.items) = ActiveKeys(items) \cup new
     /\ \A k \in new :
          /\ getParentPath(k) = DesktopPath
          /\ r2.items[k].aliasType = aliasType
          /\ r2.items[k].aliasTarget =
               IF aliasType = "app" THEN <<"textedit">> ELSE targetPath

TargetUnchanged(targetPath, aliasType) ==
  LET r == createAlias(FilesState, targetPath, "a", aliasType, "textedit")
  IN targetPath \in DOMAIN r.items /\ r.items[targetPath] = items[targetPath]

HasDesktop == DesktopPath \in DOMAIN items /\ items[DesktopPath].isDirectory

FormatCompleted ==
  /\ libraryState = "uninitialized"
  /\ \A t \in BagToSet(tasks) :
       t.op \notin {"initializeLibrary", "formatFileSystem"}

Reseeded ==
  /\ libraryState # "uninitialized"
  /\ {DesktopPath, TrashPath, DocumentsPath, ImagesPath} \subseteq DOMAIN items

\* C30: after formatFileSystem has completed the metadata store is
\* eventually seeded again in the same session, without a further user
\* action: libraryState leaves "uninitialized" and the default directories
\* exist again.
C30_FormatReseeds == FormatCompleted ~> Reseeded

InFlight == {c \in Callers : loadPc[c] \in {"fetch", "blob", "put"}}

OpenEnds(c) ==
  /\ \E t \in OpenTasks : t.caller = c
  /\ \A u \in BagToSet(tasks') : ~(u.op = "handleFileOpen" /\ u.caller = c)

\* C33: a failed resolution aborts the open: when the alias loop ends at a
\* missing target, in a cycle or at the depth cap, or when the file's content
\* is absent from the content store and no lazy-load source is registered, no
\* instance is launched or focused and the metadata store, the content store
\* and the instance table stay as they are.
C33_FailedOpenAborts ==
  /\ [](\A path \in ChainPaths \cap DOMAIN items :
          ResolveAlias(items, path, {}, 0).outcome
              \in {"targetNotFound", "circular", "maxDepth"}
            => handleFileOpen(AppState, items, path) = AppState)
  /\ [][\A c \in Callers :
          (/\ OpenEnds(c)
           /\ AssetUuid \notin db[AssetStore]
           /\ AssetPath \notin pendingLazyLoadFiles)
            => UNCHANGED <<appVars, filesVars, db>>]_vars

\* path starts a chain of k file aliases that ends in an item that is no
\* alias.
RECURSIVE IsChain(_, _, _)
IsChain(its, path, k) ==
  IF k = 0 THEN path \in DOMAIN its /\ ~IsAlias(its, path)
  ELSE /\ IsAlias(its, path)
       /\ its[path].aliasType = "file"
       /\ IsChain(its, its[path].aliasTarget, k - 1)

RECURSIVE Follow(_, _, _)
Follow(its, path, k) ==
  IF k = 0 THEN path ELSE Follow(its, its[path].aliasTarget, k - 1)

\* C34: for a chain of k file aliases, k less than the cap of 10, that ends
\* in an existing item that is no alias, the alias loop of handleFileOpen
\* leaves with that item resolved, never as depth exhaustion.
C34_ChainResolves ==
  \A path \in DOMAIN items, k \in 0..(maxDepth - 1) :
    IsChain(items, path, k) =>
      LET r == ResolveAlias(items, path, {}, 0)
      IN r.outcome = "resolved" /\ r.path = Follow(items, path, k)

\* ---- claims about the navigation of a window ----------------------------

\* C35: in every state reached through navigateToPath, navigateUp,
\* navigateBack and navigateForward, with local or instance-delegated state,
\* 0 <= historyIndex < length(history) and history[historyIndex] is
\* currentPath (the values the hook works with).
C35_NavigationConsistent ==
  hookMode # "unmounted" =>
    /\ 0 <= historyIndex
    /\ historyIndex < Len(history)
    /\ history[historyIndex + 1] = currentPath

\* C36: navigateToPath(p) with the normalized p other than currentPath makes
\* history the old history up to and including historyIndex followed by p,
\* historyIndex the old index plus one and currentPath p, and with p equal to
\* currentPath it changes none of the three; navigateBack and
\* navigateForward move the index by exactly one when canNavigateBack /
\* canNavigateForward hold and else change nothing, and never alter history.
C36_BrowserHistory ==
  /\ [][\A path \in NavInputs :
          NavigateToPathOf(path) =>
            LET p == NormalizedPath(path)
            IN IF p # currentPath
                 THEN /\ history' = Append(SubSeq(history, 1,
                                                  historyIndex + 1), p)
                      /\ historyIndex' = historyIndex + 1
                      /\ currentPath' = p
                 ELSE /\ history' = history
                      /\ historyIndex' = historyIndex
                      /\ currentPath' = currentPath]_vars
  /\ [][NavigateBack =>
          /\ history' = history
          /\ IF historyIndex > 0
               THEN historyIndex' = historyIndex - 1
               ELSE historyIndex' = historyIndex
                    /\ currentPath' = currentPath]_vars
  /\ [][NavigateForward =>
          /\ history' = history
          /\ IF historyIndex < Len(history) - 1
               THEN historyIndex' = historyIndex + 1
               ELSE historyIndex' = historyIndex
                    /\ currentPath' = currentPath]_vars

\* ---- claims about moveFile's result -------------------------------------

\* This step is where moveFile(items[path], targetFolderPath) returns true:
\* the call that needs no content move, or the end of the task that moved
\* the content.
MoveFileReturnsTrue(path, targetFolderPath) ==
  \/ /\ MoveFileOf(path, targetFolderPath)
     /\ ~moveFileRejects(items, path, targetFolderPath)
     /\ UNCHANGED tasks
  \/ \E t \in BagToSet(tasks) :
       /\ t.op = "moveFile"
       /\ t.sourcePath = path
       /\ t.newPath = Append(targetFolderPath, LastSegment(path))
       /\ t.pc \in {"get", "delete"}
       /\ tasks' = Finish(t)

\* C37: moveFile returns true only if the item is afterwards stored at
\* destFolder/name and no longer at its old path, and when it returns false
\* neither the items map nor any content bucket has changed.
C37_MoveFileResult ==
  [][\A path \in FacadeFiles, targetFolderPath \in FacadeFolders :
       /\ MoveFileReturnsTrue(path, targetFolderPath) =>
            /\ Append(targetFolderPath, LastSegment(path)) \in DOMAIN items'
            /\ path \notin DOMAIN items'
       /\ (/\ MoveFileOf(path, targetFolderPath)
           /\ moveFileRejects(items, path, targetFolderPath)) =>
            UNCHANGED <<items, db>>]_vars

\* ---- claims about the migrations ----------------------------------------

\* Every step of a version greater than the stored one, in ascending order.
FilesStepsAbove(state, version) ==
  LET s5 == IF version < 5 THEN FilesStep5(state) ELSE state
      s6 == IF version < 6 THEN FilesStep6(s5) ELSE s5
  IN IF version < 7 THEN FilesStep7(s6) ELSE s6

AppStepsAbove(state, version) ==
  LET s2 == IF version < 2 THEN AppStep2(state) ELSE state
      s3 == IF version < 3 THEN AppStep3(s2) ELSE s2
      s4 == IF version < 4 THEN AppStep4(s3) ELSE s3
  IN [s4 EXCEPT !.version = CURRENT_APP_STORE_VERSION]

\* C38: for each of the two persisted stores, loading state persisted at an
\* older version v applies every migration step of a version greater than v,
\* in ascending order, none skipped: files-store state of version 4 gets the
\* status/uuid step and the timestamp and size steps too.
C38_EveryStepApplied ==
  [][/\ MigrateFiles =>
          storage'.state = FilesStepsAbove(storage.state,
                                             storage.version)
     /\ MigrateApp =>
          storage'.state = AppStepsAbove(storage.state,
                                         storage.version)]_vars

\* ---- claims about the trash and its content -----------------------------

\* The facade's emptyTrash ends in this step: at its call when no uuid was
\* returned, else with the last delete.
EmptyTrashCompletes ==
  \/ EmptyTrashFacade /\ UNCHANGED tasks
  \/ \E t \in BagToSet(tasks) : t.op = "emptyTrash" /\ tasks' = Finish(t)

\* No content bucket holds an entry under a uuid of no item.
NoOrphans ==
  \A storeName \in {"documents", "images", "trash"} :
    db[storeName] \subseteq {items[k].uuid : k \in DOMAIN items}

\* C39: once the facade's emptyTrash has completed, no content bucket
\* (documents, images, trash) holds an entry under a uuid that belongs to no
\* item of the metadata map, also for files trashed as descendants of a
\* trashed directory.
C39_NoOrphanedContent == [][EmptyTrashCompletes => NoOrphans']_vars

\* C40: a trashed item's originalPath is the key it is stored under, after
\* any sequence of removeItem, renameItem and moveItem calls, also when an
\* active directory with trashed descendants is renamed or moved.
C40_OriginalPathIsKey ==
  \A k \in DOMAIN items :
    items[k].status = "trashed" => items[k].originalPath = k
====
